---------------------------- MODULE Spec2Model ----------------------------
(***************************************************************************)
(* NetPulse network monitor (src/main.py): the sampling and metrics        *)
(* engine of NetPulseWindow (tick_stats, request_ping, on_ping_done,       *)
(* open_settings) and the pure functions it uses                           *)
(* (pick_active_adapter_name, quality_color, split_series_by_quality).     *)
(*                                                                         *)
(* Values.  A Python float is a record: a finite one is an exact rational  *)
(* [k |-> "fin", n, d] in lowest terms with d > 0, and NaN, +inf, -inf are *)
(* [k |-> "nan"], [k |-> "inf", s |-> 1], [k |-> "inf", s |-> -1].  A      *)
(* Python int that must be told from a float is [k |-> "int", v], and None *)
(* is [k |-> "none"].  Byte counters and times are plain integers; times   *)
(* are in milliseconds.  A str that the code inspects character by         *)
(* character (an interface name) is looked up in Ord, its code points.     *)
(***************************************************************************)
EXTENDS Integers, Sequences, FiniteSets, TLC

VARIABLES
    active_adapter,          \* self.active_adapter
    nic_last,                \* self.nic_last: nic -> [sent, recv, tm]
    nic_speed_total_mbps,    \* self.nic_speed_total_mbps: nic -> float
    nic_speed_down_mbps,     \* self.nic_speed_down_mbps
    nic_speed_up_mbps,       \* self.nic_speed_up_mbps
    nic_sent_mb,             \* self.nic_sent_mb
    nic_recv_mb,             \* self.nic_recv_mb
    total_sent_mb,           \* self.total_sent_mb
    total_recv_mb,           \* self.total_recv_mb
    last_ping_ms,            \* self.last_ping_ms: int or None
    last_mbps_simple_total,  \* self.last_mbps_simple_total
    last_mbps_simple_down,   \* self.last_mbps_simple_down
    last_mbps_simple_up,     \* self.last_mbps_simple_up
    last_mbps_graph_total,   \* self.last_mbps_graph_total
    simple_hist_total,       \* deque(maxlen = simple_smooth_len)
    simple_hist_down,
    simple_hist_up,
    ping_sent,               \* self.ping_sent
    ping_ok,                 \* self.ping_ok
    ping_fail,               \* self.ping_fail
    t_hist,                  \* deque(maxlen = buf_len) of wall-clock times
    mbps_hist,               \* deque(maxlen = buf_len) of total rates
    ping_hist,               \* deque(maxlen = buf_len) of latencies or NaN
    settings,                \* self.settings (the fields the engine reads)
    stats_timer,             \* self.stats_timer: [active, interval]
    ping_timer,              \* self.ping_timer: [active, interval]
    running,                 \* PingTasks started on the pool, not yet finished:
                             \* the set of their numbers (ping_sent at the start)
    events,                  \* done signals queued for the control thread, each
                             \* [id, ms]: the task and what ping_once returned
    pernic,                  \* tick_stats' local pernic, as last read
    tmono,                   \* time.monotonic(), as last read (ms)
    twall,                   \* time.time(), as last read (ms)
    nticks,                  \* number of stats ticks run (bounds the model)
    ifstats,                 \* psutil.net_if_stats(), as last read: the
                             \* interfaces, or the exception it raised
    escaped,                 \* the handlers an exception has left for the
                             \* event loop
    call                     \* a call of a pure function: its arguments and result

nicVars    == <<nic_last, nic_speed_total_mbps, nic_speed_down_mbps,
                nic_speed_up_mbps, nic_sent_mb, nic_recv_mb>>
totalVars  == <<total_sent_mb, total_recv_mb>>
simpleVars == <<last_mbps_simple_total, last_mbps_simple_down,
                last_mbps_simple_up, simple_hist_total, simple_hist_down,
                simple_hist_up>>
histVars   == <<t_hist, mbps_hist, ping_hist>>
pingVars   == <<last_ping_ms, ping_sent, ping_ok, ping_fail>>
timerVars  == <<stats_timer, ping_timer>>
poolVars   == <<running, events>>
tickLocals == <<pernic, tmono, twall, nticks, ifstats, escaped>>
engineVars == <<active_adapter, nicVars, totalVars, simpleVars,
                last_mbps_graph_total, histVars, pingVars, settings,
                timerVars, poolVars, tickLocals>>
vars       == <<engineVars, call>>

---------------------------------------------------------------------------
(* Numbers *)

Abs(i) == IF i < 0 THEN -i ELSE i

RECURSIVE GCD(_, _)
GCD(a, b) == IF b = 0 THEN a ELSE GCD(b, a % b)

\* The rational n/d (d # 0) in lowest terms, d > 0: a finite float.
F(n, d) ==
    LET g == GCD(Abs(n), Abs(d))
        s == IF d < 0 THEN -1 ELSE 1
    IN  [k |-> "fin", n |-> s * (n \div g), d |-> s * (d \div g)]

Zero == F(0, 1)
NaN  == [k |-> "nan"]
PInf == [k |-> "inf", s |-> 1]
NInf == [k |-> "inf", s |-> -1]
None == [k |-> "none"]

\* a key a dict does not have
Absent == [k |-> "absent"]
PyInt(v) == [k |-> "int", v |-> v]

\* a + b of two finite floats, over the least common denominator.
FAdd(a, b) ==
    LET g == GCD(a.d, b.d)
        l == (a.d \div g) * b.d
    IN  F(a.n * (l \div a.d) + b.n * (l \div b.d), l)

\* a / i and a * i for a finite float a and an integer i # 0.
FDivInt(a, i) == F(a.n, a.d * i)
FMulInt(a, i) == F(a.n * i, a.d)

FLe(a, b) == a.n * b.d <= b.n * a.d
FLt(a, b) == a.n * b.d < b.n * a.d

\* Python's max(x, y) of two finite floats: y if y > x, else x.
FMax(x, y) == IF FLt(x, y) THEN y ELSE x

\* Python's max(x, y) of two ints.
IMax(x, y) == IF y > x THEN y ELSE x

\* float(v) of an int or a float.
ToFloat(v) == IF v.k = "int" THEN F(v.v, 1) ELSE v

\* dict.get(key, default)
Get(map, key, default) == IF key \in DOMAIN map THEN map[key] ELSE default

\* range of a sequence
Range(s) == {s[i] : i \in 1..Len(s)}

---------------------------------------------------------------------------
(* collections.deque(maxlen = n) *)

\* DequeAppend on a deque made without maxlen
DequeAppend_Unbounded(q, x, maxlen) == Append(q, x)

\* append putting the new element first and discarding the last when full
DequeAppend_Reversed(q, x, maxlen) ==
    IF Len(q) >= maxlen THEN <<x>> \o SubSeq(q, 1, maxlen - 1) ELSE <<x>> \o q

\* deque.append on a bounded deque: the item goes to the right end, and when
\* the deque is over its maxlen the items at the left end are discarded.
DequeAppend(q, x, maxlen) ==
    LET r == Append(q, x)
    IN  IF Len(r) > maxlen THEN SubSeq(r, Len(r) - maxlen + 1, Len(r)) ELSE r

\* deque([x] * n, maxlen = n)
DequeFilled(x, n) == [i \in 1..n |-> x]

---------------------------------------------------------------------------
(* str: the interface names the model uses, as code points *)

Ord(name) ==
    CASE name = "lo"       -> <<108, 111>>
      [] name = "eth0"     -> <<101, 116, 104, 48>>
      [] name = "wlan0"    -> <<119, 108, 97, 110, 48>>
      [] name = "tun0"     -> <<116, 117, 110, 48>>
      [] name = "usb0"     -> <<117, 115, 98, 48>>
      [] name = "Ethernet" -> <<69, 116, 104, 101, 114, 110, 101, 116>>
      [] name = "Loopback" -> <<76, 111, 111, 112, 98, 97, 99, 107>>

\* str.lower(), on ASCII: "A".."Z" (65..90) become "a".."z".
Lower(cs) == [i \in 1..Len(cs) |-> IF cs[i] >= 65 /\ cs[i] <= 90 THEN cs[i] + 32 ELSE cs[i]]

\* str.startswith(prefix)
StartsWith(cs, prefix) ==
    /\ Len(prefix) <= Len(cs)
    /\ SubSeq(cs, 1, Len(prefix)) = prefix

\* sub in cs
Contains(cs, sub) ==
    \E i \in 1..(Len(cs) + 1) :
        /\ i + Len(sub) - 1 <= Len(cs)
        /\ SubSeq(cs, i, i + Len(sub) - 1) = sub

\* a < b of two str: at the first differing position the smaller code point,
\* and a proper prefix is smaller.
StrLt(a, b) ==
    \E i \in 1..(Len(b)) :
        /\ i <= Len(a) + 1
        /\ SubSeq(a, 1, i - 1) = SubSeq(b, 1, i - 1)
        /\ (i = Len(a) + 1 \/ a[i] < b[i])

---------------------------------------------------------------------------
(* pick_active_adapter_name.  psutil.net_if_stats() is a sequence of        *)
(* [name, isup, speed] in the dict's enumeration order (names distinct),    *)
(* psutil.net_if_addrs() a function from names to sequences of              *)
(* [family, address].                                                       *)

\* line 278: the "no network" sentinel (the source's string is Russian,
\* "Net seti" in Latin letters)
NO_NETWORK == "Net seti"

\* the prefixes of line 254: "lo", "loopback"
LoopbackPrefixes == { <<108, 111>>, <<108, 111, 111, 112, 98, 97, 99, 107>> }

\* the deny-list of lines 257-259
DenyList == {
       <<118, 105, 114, 116, 117, 97, 108>>,               \* "virtual"
       <<118, 109, 119, 97, 114, 101>>,                    \* "vmware"
       <<104, 121, 112, 101, 114, 45, 118>>,               \* "hyper-v"
       <<118, 98, 111, 120>>,                              \* "vbox"
       <<108, 111, 111, 112, 98, 97, 99, 107>>,            \* "loopback"
       <<116, 117, 110, 110, 101, 108>>,                   \* "tunnel"
       <<116, 97, 112>>,                                   \* "tap"
       <<116, 117, 110>>,                                  \* "tun"
       <<118, 112, 110>>,                                  \* "vpn"
       <<119, 105, 110, 116, 117, 110>>,                   \* "wintun"
       <<119, 105, 114, 101, 103, 117, 97, 114, 100>> }    \* "wireguard"

\* the interface names of the model (those Ord knows)
Names == {"lo", "eth0", "wlan0", "tun0", "usb0", "Ethernet", "Loopback"}

\* line 254: name.lower().startswith(("lo", "loopback")), computed once for
\* each name of the model
StartsLoNames ==
    {name \in Names : \E p \in LoopbackPrefixes : StartsWith(Lower(Ord(name)), p)}

NameStartsLo(name) == name \in StartsLoNames

\* lines 256-259: any(x in low for x in [...]), computed once for each name
DeniedNames ==
    {name \in Names : \E x \in DenyList : Contains(Lower(Ord(name)), x)}

NameDenied(name) == name \in DeniedNames

\* a < b of two names as Python compares str, computed once for each pair
NameLtPairs == {p \in Names \X Names : StrLt(Ord(p[1]), Ord(p[2]))}

NameLt(a, b) == <<a, b>> \in NameLtPairs

\* IsCandidate without the test of line 254
IsCandidate_NoLoPrefix(st) == st.isup /\ ~NameDenied(st.name)

\* lines 252-260: the interface is kept as a candidate
IsCandidate(st) == st.isup /\ ~NameStartsLo(st.name) /\ ~NameDenied(st.name)

\* line 265: the address counts for ip_score
CountsForIp(a) ==
    /\ a.family = "AF_INET"
    /\ a.address # ""
    /\ a.address # "127.0.0.1"

\* lines 262-266: ip_score
RECURSIVE IpScore(_)
IpScore(as) ==
    IF as = <<>> THEN 0
    ELSE (IF CountsForIp(Head(as)) THEN 10 ELSE 0) + IpScore(Tail(as))

\* lines 268-269: the tuple appended for a candidate
CandidateTuple(st, addrs) ==
    LET ip_score    == IpScore(Get(addrs, st.name, <<>>))
        speed_score == IF st.speed # 0 THEN st.speed ELSE 0
    IN  [score |-> FAdd(F(ip_score, 1), F(speed_score, 10)), name |-> st.name]

\* lines 250-269: candidates, in enumeration order
RECURSIVE Candidates(_, _)
Candidates(stats, addrs) ==
    IF stats = <<>> THEN <<>>
    ELSE (IF IsCandidate(Head(stats))
             THEN <<CandidateTuple(Head(stats), addrs)>>
             ELSE <<>>) \o Candidates(Tail(stats), addrs)

\* TupleLt comparing the scores only (a sort with key = the score)
TupleLt_ScoreOnly(a, b) == FLt(a.score, b.score)

\* (score, name) < (score, name) of two tuples
TupleLt(a, b) ==
    \/ FLt(a.score, b.score)
    \/ a.score = b.score /\ NameLt(a.name, b.name)

\* list.sort(reverse=True): descending, equal items keeping their order.
RECURSIVE InsertDesc(_, _)
InsertDesc(sorted, x) ==
    IF sorted = <<>> THEN <<x>>
    ELSE IF TupleLt(Head(sorted), x) THEN <<x>> \o sorted
    ELSE <<Head(sorted)>> \o InsertDesc(Tail(sorted), x)

RECURSIVE SortReverse(_)
SortReverse(s) ==
    IF s = <<>> THEN <<>>
    ELSE InsertDesc(SortReverse(SubSeq(s, 1, Len(s) - 1)), s[Len(s)])

\* FirstUp without the test of line 276
FirstUp_AnyState(stats) ==
    IF stats = <<>> THEN NO_NETWORK ELSE Head(stats).name

\* lines 275-278: the first interface that is up, else the sentinel
RECURSIVE FirstUp(_)
FirstUp(stats) ==
    IF stats = <<>> THEN NO_NETWORK
    ELSE IF Head(stats).isup THEN Head(stats).name
    ELSE FirstUp(Tail(stats))

pick_active_adapter_name(stats, addrs) ==
    LET candidates == Candidates(stats, addrs)
    IN  IF candidates # <<>>
           THEN SortReverse(candidates)[1].name
           ELSE FirstUp(stats)

---------------------------------------------------------------------------
(* quality_color, split_series_by_quality *)

GREEN == "#4dff88"

YELLOW == "#ffd24d"

RED == "#ff4d4d"

\* quality_color without math.isinf: an infinite value is compared
quality_color_NoInfCheck(value, good, ok, invert) ==
    IF value = None THEN RED
    ELSE LET v == ToFloat(value)
         IN  IF v.k = "nan" THEN RED
             ELSE IF v.k = "inf"
                     THEN (IF invert = (v.s < 0) THEN GREEN ELSE RED)
             ELSE IF invert
                     THEN (IF FLe(v, ToFloat(good)) THEN GREEN
                           ELSE IF FLe(v, ToFloat(ok)) THEN YELLOW
                           ELSE RED)
                     ELSE (IF FLe(ToFloat(good), v) THEN GREEN
                           ELSE IF FLe(ToFloat(ok), v) THEN YELLOW
                           ELSE RED)

\* lines 359-380.  value is None, an int or a float; good and ok are ints or
\* finite floats.
quality_color(value, good, ok, invert) ==
    IF value = None THEN RED
    ELSE LET v == ToFloat(value)
         IN  IF v.k = "nan" \/ v.k = "inf" THEN RED
             ELSE IF invert
                     THEN (IF FLe(v, ToFloat(good)) THEN GREEN
                           ELSE IF FLe(v, ToFloat(ok)) THEN YELLOW
                           ELSE RED)
                     ELSE (IF FLe(ToFloat(good), v) THEN GREEN
                           ELSE IF FLe(ToFloat(ok), v) THEN YELLOW
                           ELSE RED)

\* what a call that raised an exception returns to the model
Raised == [raised |-> TRUE]

\* line 389: the length of zip(xs, ys)
ZipLen(xs, ys) == IF Len(xs) < Len(ys) THEN Len(xs) ELSE Len(ys)

\* lines 393, 402, 411: float(y) raises TypeError for None
FloatRaises(y) == y = None

\* lines 383-412.  The result is Raised, or the three (x, y) pairs of lists
\* in the order returned: green, yellow, red.
split_series_by_quality(xs, ys, good, ok, invert) ==
    LET n      == ZipLen(xs, ys)
        col(i) == quality_color(ys[i], good, ok, invert)
        series(colour) ==
            [x |-> [i \in 1..n |-> xs[i]],
             y |-> [i \in 1..n |-> IF col(i) = colour THEN ToFloat(ys[i]) ELSE NaN]]
    IN  IF \E i \in 1..n : FloatRaises(ys[i])
           THEN Raised
           ELSE [raised |-> FALSE,
                 green  |-> series(GREEN),
                 yellow |-> series(YELLOW),
                 red    |-> series(RED)]

---------------------------------------------------------------------------
(* The operating system, as psutil reports it at one moment: stats and      *)
(* addrs as above, pernic = psutil.net_io_counters(pernic=True), a function *)
(* from names to [bytes_sent, bytes_recv], and io =                         *)
(* psutil.net_io_counters(), the sum over the interfaces.                   *)

RECURSIVE SumOver(_, _, _)
SumOver(map, keys, field) ==
    IF keys = {} THEN 0
    ELSE LET key == CHOOSE x \in keys : TRUE
         IN  (IF field = "sent" THEN map[key].bytes_sent ELSE map[key].bytes_recv)
             + SumOver(map, keys \ {key}, field)

Snapshot(stats, addrs, counters) ==
    [stats  |-> stats,
     addrs  |-> addrs,
     pernic |-> counters,
     io     |-> [bytes_sent |-> SumOver(counters, DOMAIN counters, "sent"),
                 bytes_recv |-> SumOver(counters, DOMAIN counters, "recv")]]

Counters(sent, recv) == [bytes_sent |-> sent, bytes_recv |-> recv]

Iface(name, isup, speed) == [name |-> name, isup |-> isup, speed |-> speed]

Addr(family, address) == [family |-> family, address |-> address]

\* the empty dict
EmptyMap == [x \in {} |-> 0]

\* the names of psutil.net_if_stats()
StatNames(stats) == {stats[i].name : i \in 1..Len(stats)}

---------------------------------------------------------------------------
(* ping_once.  A text the code parses is a sequence of one-character       *)
(* strings; a Cyrillic letter is written by its code point, "U+0432".      *)

\* str.lower() of the letters the texts are made of
LowerChar(c) ==
    CASE c = "T" -> "t"
      [] c = "I" -> "i"
      [] c = "M" -> "m"
      [] c = "E" -> "e"
      [] c = "S" -> "s"
      [] OTHER   -> c

TextLower(s) == [i \in 1..Len(s) |-> LowerChar(s[i])]

\* s.replace(c, "") of a one-character c
TextRemove(s, c) == SelectSeq(s, LAMBDA x : x # c)

\* s.find(sub): the least index (from 0) sub occurs at, -1 if it does not
TextFind(s, sub) ==
    LET hits == { i \in 0..(Len(s) - Len(sub)) : SubSeq(s, i + 1, i + Len(sub)) = sub }
    IN  IF hits = {} THEN -1 ELSE CHOOSE i \in hits : \A j \in hits : i <= j

\* s[i:] and s[:i]
TextFrom(s, i) == SubSeq(s, i + 1, Len(s))
TextUpTo(s, i) == SubSeq(s, 1, i)

Digits == {"0", "1", "2", "3", "4", "5", "6", "7", "8", "9"}

DigitValue(c) ==
    CASE c = "0" -> 0 [] c = "1" -> 1 [] c = "2" -> 2 [] c = "3" -> 3
      [] c = "4" -> 4 [] c = "5" -> 5 [] c = "6" -> 6 [] c = "7" -> 7
      [] c = "8" -> 8 [] c = "9" -> 9

IsDigits(s) == \A i \in 1..Len(s) : s[i] \in Digits

\* the number a sequence of digits writes
RECURSIVE DigitsValue(_)
DigitsValue(s) ==
    IF s = <<>> THEN 0
    ELSE 10 * DigitsValue(SubSeq(s, 1, Len(s) - 1)) + DigitValue(s[Len(s)])

RECURSIVE Pow10(_)
Pow10(n) == IF n = 0 THEN 1 ELSE 10 * Pow10(n - 1)

\* float(val) raised ValueError
ValueError == [k |-> "raised"]

\* s without a leading sign, and the sign
Unsigned(s) == IF s # <<>> /\ s[1] \in {"-", "+"} THEN Tail(s) ELSE s
SignOf(s) == IF s # <<>> /\ s[1] = "-" THEN -1 ELSE 1

\* float(val) of a text without spaces: [sign] digits [. digits] [e [sign]
\* digits] with a digit in the mantissa, or [sign] nan, inf, infinity
PyFloat(val) ==
    LET sign  == SignOf(val)
        body  == Unsigned(val)
        epos  == TextFind(body, <<"e">>)
        mant  == IF epos = -1 THEN body ELSE TextUpTo(body, epos)
        expo  == IF epos = -1 THEN <<"0">> ELSE TextFrom(body, epos + 1)
        dot   == TextFind(mant, <<".">>)
        whole == IF dot = -1 THEN mant ELSE TextUpTo(mant, dot)
        frac  == IF dot = -1 THEN <<>> ELSE TextFrom(mant, dot + 1)
        edig  == Unsigned(expo)
        e     == SignOf(expo) * DigitsValue(edig)
        m     == sign * DigitsValue(whole \o frac)
    IN  IF body = <<"n", "a", "n">> THEN NaN
        ELSE IF body \in { <<"i", "n", "f">>, <<"i", "n", "f", "i", "n", "i", "t", "y">> }
            THEN (IF sign < 0 THEN NInf ELSE PInf)
        ELSE IF /\ IsDigits(whole) /\ IsDigits(frac) /\ Len(whole) + Len(frac) > 0
                /\ edig # <<>> /\ IsDigits(edig)
            THEN (IF e >= Len(frac)
                     THEN F(m * Pow10(e - Len(frac)), 1)
                     ELSE F(m, Pow10(Len(frac) - e)))
        ELSE ValueError

\* round(v) of a finite float: the nearest integer, a half going to the even
RoundHalfEven(v) ==
    LET q == v.n \div v.d
        r == v.n - q * v.d
    IN  IF 2 * r < v.d THEN q
        ELSE IF 2 * r > v.d THEN q + 1
        ELSE IF q % 2 = 0 THEN q ELSE q + 1

\* lines 313-317 and 324-328: int(round(float(val))) of the text found, None
\* when float raises ValueError or round raises on nan or an infinity
ParsedMs(found) ==
    LET v == PyFloat(TextRemove(found, "<"))
    IN  IF v.k = "fin" THEN PyInt(RoundHalfEven(v)) ELSE None

TimeEq == <<"t", "i", "m", "e", "=">>
Ms     == <<"m", "s">>

\* "U+0432 U+0440 U+0435 U+043C U+044F =" and "U+043C U+0441", lines 319, 322
RuTimeEq == <<"U+0432", "U+0440", "U+0435", "U+043C", "U+044F", "=">>
RuMs     == <<"U+043C", "U+0441">>

\* lines 308-312 and 319-323: the text between the first occurrence of
\* prefix and the first occurrence of unit after it; Absent when either is
\* not found
Between(s, prefix, unit) ==
    LET idx == TextFind(s, prefix)
        t   == TextFrom(s, idx + Len(prefix))
        end == TextFind(t, unit)
    IN  IF idx = -1 \/ end = -1 THEN Absent ELSE [found |-> TextUpTo(t, end)]

\* sys.platform.startswith("win")
IsWindows(platform) == platform = "win32"

\* str(timeout_ms) of a positive int
RECURSIVE IntToText(_)
IntToText(n) ==
    LET c == CHOOSE c \in Digits : DigitValue(c) = n % 10
    IN  IF n < 10 THEN <<c>> ELSE Append(IntToText(n \div 10), c)

\* the arguments of the command, each a text
ArgPing == <<"p", "i", "n", "g">>
ArgN == <<"-", "n">>
ArgC == <<"-", "c">>
ArgW == <<"-", "w">>
ArgOne == <<"1">>

\* lines 284-287: the command ping_once runs
ping_cmd(platform, host, timeout_ms) ==
    IF IsWindows(platform)
        THEN <<ArgPing, ArgN, ArgOne, ArgW, IntToText(timeout_ms), host>>
        ELSE <<ArgPing, ArgC, ArgOne, host>>

\* what subprocess.run did: raised, or completed with a return code and the
\* two captured texts
LaunchRaised == [raised |-> TRUE]
Completed(returncode, stdout, stderr) ==
    [raised |-> FALSE, returncode |-> returncode, stdout |-> stdout, stderr |-> stderr]

\* ping_once without the test of the return code of lines 304-305
ping_once_AnyReturncode(proc) ==
    IF proc.raised THEN None
    ELSE LET out == proc.stdout \o proc.stderr
             s   == TextRemove(TextLower(out), " ")
             en  == Between(s, TimeEq, Ms)
             ru  == Between(s, RuTimeEq, RuMs)
         IN  IF en # Absent THEN ParsedMs(en.found)
             ELSE IF ru # Absent THEN ParsedMs(ru.found)
             ELSE None

\* lines 281-332: what ping_once returns when subprocess.run did proc
ping_once(proc) ==
    IF proc.raised THEN None
    ELSE IF proc.returncode # 0 THEN None
    ELSE LET out == proc.stdout \o proc.stderr
             s   == TextRemove(TextLower(out), " ")
             en  == Between(s, TimeEq, Ms)
             ru  == Between(s, RuTimeEq, RuMs)
         IN  IF en # Absent THEN ParsedMs(en.found)
             ELSE IF ru # Absent THEN ParsedMs(ru.found)
             ELSE None

\* line 281: the defaults of host and timeout_ms
DefaultHost == <<"1", ".", "1", ".", "1", ".", "1">>
DefaultTimeoutMs == 800

---------------------------------------------------------------------------
(* NetPulseWindow *)

buf_len == 240

simple_smooth_len == 10

\* line 1358: the floor of dt, 0.050 s
MinDtMs == 50

BytesPerMb == 1024 * 1024

\* Settings(): the defaults of the fields the engine reads
DefaultSettings ==
    [stats_refresh_ms   |-> 1000,
     ping_refresh_ms    |-> 1500,
     simple_adapter     |-> "active",
     graph_adapter      |-> "active",
     monitored_adapters |-> <<>>,
     good_ping_ms       |-> PyInt(60),
     ok_ping_ms         |-> PyInt(150),
     good_mbps          |-> F(5, 1),
     ok_mbps            |-> F(1, 2)]

\* Python's min(x, y) of two ints
IMin(x, y) == IF y < x THEN y ELSE x

\* the settings file: missing, not JSON, or a JSON object (a function from
\* keys to values)
NoFile == [k |-> "no file"]
NotJson == [k |-> "not json"]

\* lines 174-217: what load_settings returns.  A key that is no field of
\* Settings makes Settings(**base) raise, and the defaults are returned.
load_settings(file) ==
    IF file \in {NoFile, NotJson} THEN DefaultSettings
    ELSE IF ~(DOMAIN file \subseteq DOMAIN DefaultSettings) THEN DefaultSettings
    ELSE LET base == [key \in DOMAIN DefaultSettings |->
                         IF key \in DOMAIN file THEN file[key] ELSE DefaultSettings[key]]
         IN  [base EXCEPT
                 !.stats_refresh_ms = IMax(250, IMin(10000, @)),
                 !.ping_refresh_ms  = IMax(500, IMin(20000, @)),
                 !.simple_adapter   = IF @ = "" THEN "active" ELSE @]

\* QTimer.start(ms)
TimerStarted(ms) == [active |-> TRUE, interval |-> ms]

\* RawUpMbps without the clamp of line 1359: d_sent = sent - psent
RawUpMbps_NoDeltaClamp(sent, psent, tm, ptm) ==
    LET dt_ms  == IMax(MinDtMs, tm - ptm)
        d_sent == sent - psent
    IN  F(d_sent * 8, dt_ms * 1000)

\* lines 1357-1362: up_mbps of a tick that reads the counter sent at tm,
\* against the baseline psent read at ptm (d_sent * 8.0 / dt / 1e6 with dt
\* in seconds is d_sent * 8 / (dt_ms * 1000))
RawUpMbps(sent, psent, tm, ptm) ==
    LET dt_ms  == IMax(MinDtMs, tm - ptm)
        d_sent == IMax(0, sent - psent)
    IN  F(d_sent * 8, dt_ms * 1000)

\* RawDownMbps with dt floored only when it is not positive
RawDownMbps_FloorOnlyZero(recv, precv, tm, ptm) ==
    LET dt_ms  == IF tm - ptm <= 0 THEN MinDtMs ELSE tm - ptm
        d_recv == IMax(0, recv - precv)
    IN  F(d_recv * 8, dt_ms * 1000)

\* lines 1357-1363: down_mbps
RawDownMbps(recv, precv, tm, ptm) ==
    LET dt_ms  == IMax(MinDtMs, tm - ptm)
        d_recv == IMax(0, recv - precv)
    IN  F(d_recv * 8, dt_ms * 1000)

\* UpMbps with neither the clamp of line 1359 nor that of line 1366
UpMbps_Unclamped(sent, psent, tm, ptm) ==
    F((sent - psent) * 8, IMax(MinDtMs, tm - ptm) * 1000)

\* line 1366: the stored up rate
UpMbps(sent, psent, tm, ptm) == FMax(Zero, RawUpMbps(sent, psent, tm, ptm))

\* line 1367: the stored down rate
DownMbps(recv, precv, tm, ptm) == FMax(Zero, RawDownMbps(recv, precv, tm, ptm))

\* lines 1364, 1368: the stored total rate
TotalMbps(sent, recv, last, tm) ==
    LET up_mbps    == RawUpMbps(sent, last.sent, tm, last.tm)
        down_mbps  == RawDownMbps(recv, last.recv, tm, last.tm)
        total_mbps == FAdd(up_mbps, down_mbps)
    IN  FMax(Zero, total_mbps)

\* lines 1346-1372, the entry of one reported nic in each map after the tick
NicLastAfter(c, tm) == [sent |-> c.bytes_sent, recv |-> c.bytes_recv, tm |-> tm]

\* NicUpAfter taking a zero baseline for a nic not seen before
NicUpAfter_ZeroBaseline(last, nic, c, tm) ==
    IF nic \notin DOMAIN last THEN UpMbps(c.bytes_sent, 0, tm, tm)
    ELSE UpMbps(c.bytes_sent, last[nic].sent, tm, last[nic].tm)

NicUpAfter(last, nic, c, tm) ==
    IF nic \notin DOMAIN last THEN Zero
    ELSE UpMbps(c.bytes_sent, last[nic].sent, tm, last[nic].tm)

NicDownAfter(last, nic, c, tm) ==
    IF nic \notin DOMAIN last THEN Zero
    ELSE DownMbps(c.bytes_recv, last[nic].recv, tm, last[nic].tm)

NicTotalAfter(last, nic, c, tm) ==
    IF nic \notin DOMAIN last THEN Zero
    ELSE TotalMbps(c.bytes_sent, c.bytes_recv, last[nic], tm)

\* the maps rebuilt at each tick from the nics it reports
Updated_ReportedOnly(map, entries) == entries

\* the loop writing only the entries of the nics not seen before
Updated_KeepsExisting(map, entries) ==
    [nic \in DOMAIN map \cup DOMAIN entries |->
        IF nic \in DOMAIN map THEN map[nic] ELSE entries[nic]]

\* the map after the loop of lines 1346-1372: the reported nics get their
\* new entry, the others keep theirs
Updated(map, entries) ==
    [nic \in DOMAIN map \cup DOMAIN entries |->
        IF nic \in DOMAIN entries THEN entries[nic] ELSE map[nic]]

\* _resolve_adapter returning a literal name whether or not it is reported
resolve_adapter_KeepsLiteral(value, active, stats) ==
    LET v == IF value = "" THEN "active" ELSE value
    IN  IF v = "active" THEN active ELSE v

\* lines 1226-1234, with psutil.net_if_stats() read at the call
resolve_adapter(value, active, stats) ==
    LET v == IF value = "" THEN "active" ELSE value
    IN  IF v = "active" THEN active
        ELSE IF v \notin StatNames(stats) THEN active
        ELSE v

\* Python's sum() of a deque of floats
RECURSIVE FSum(_)
FSum(q) == IF q = <<>> THEN Zero ELSE FAdd(q[1], FSum(Tail(q)))

\* the simple view showing the latest value of the window
simple_avg_Latest(hist) == hist[Len(hist)]

\* lines 1431-1433: the smoothed rate _update_simple_ui shows for a window
simple_avg(hist) == FDivInt(FSum(hist), IMax(1, Len(hist)))

\* lines 1492-1504: the adapters of the rows _update_advanced_ui puts in the
\* table: the configured list, or the active adapter when the list is empty,
\* without the names that have no entry in nic_speed_total_mbps
advanced_rows(monitored_adapters, active, speeds) ==
    LET selected == IF monitored_adapters = <<>> THEN <<active>> ELSE monitored_adapters
    IN  SelectSeq(selected, LAMBDA nic : nic \in DOMAIN speeds)

\* lines 910-960: the window after __init__, which reads the operating
\* system (snap) and the settings file (loaded) once
InitWindow(snap, loaded) ==
    /\ settings = loaded
    /\ active_adapter = pick_active_adapter_name(snap.stats, snap.addrs)
    /\ nic_last = EmptyMap
    /\ nic_speed_total_mbps = EmptyMap
    /\ nic_speed_down_mbps = EmptyMap
    /\ nic_speed_up_mbps = EmptyMap
    /\ nic_sent_mb = EmptyMap
    /\ nic_recv_mb = EmptyMap
    /\ total_sent_mb = F(snap.io.bytes_sent, BytesPerMb)
    /\ total_recv_mb = F(snap.io.bytes_recv, BytesPerMb)
    /\ last_ping_ms = None
    /\ last_mbps_simple_total = Zero
    /\ last_mbps_simple_down = Zero
    /\ last_mbps_simple_up = Zero
    /\ last_mbps_graph_total = Zero
    /\ simple_hist_total = DequeFilled(Zero, simple_smooth_len)
    /\ simple_hist_down = DequeFilled(Zero, simple_smooth_len)
    /\ simple_hist_up = DequeFilled(Zero, simple_smooth_len)
    /\ ping_sent = 0
    /\ ping_ok = 0
    /\ ping_fail = 0
    /\ twall = 0
    /\ t_hist = DequeFilled(twall, buf_len)
    /\ mbps_hist = DequeFilled(Zero, buf_len)
    /\ ping_hist = DequeFilled(NaN, buf_len)
    /\ stats_timer = TimerStarted(loaded.stats_refresh_ms)
    /\ ping_timer = TimerStarted(loaded.ping_refresh_ms)
    /\ running = {}
    /\ events = <<>>
    /\ pernic = EmptyMap
    /\ tmono = 0
    /\ nticks = 0
    /\ ifstats = snap.stats
    /\ escaped = {}

\* no call of a pure function is being followed
NoCall == [fn |-> "none"]

\* what a failing enumeration of the interfaces raises
PsutilError == [k |-> "psutil.Error"]

\* lines 1333-1335 with 246-247: psutil.net_if_stats() raises in
\* pick_active_adapter_name; tick_stats has no handler, so the exception
\* leaves it before anything is assigned
tick_stats_raises ==
    /\ stats_timer.active
    /\ ifstats' = PsutilError
    /\ escaped' = escaped \cup {"tick_stats"}
    /\ UNCHANGED <<active_adapter, nicVars, totalVars, simpleVars,
                   last_mbps_graph_total, histVars, pingVars, settings,
                   timerVars, poolVars, pernic, tmono, twall, nticks, call>>

\* lines 1333-1400: one stats tick, which reads the operating system (snap)
\* adv milliseconds after the last reading of the clocks
tick_stats(snap, adv) ==
    LET tm         == tmono + adv
        reported   == DOMAIN snap.pernic
        simple_nic == resolve_adapter(settings.simple_adapter, active_adapter', snap.stats)
        graph_nic  == resolve_adapter(settings.graph_adapter, active_adapter', snap.stats)
    IN  IF snap.stats = PsutilError THEN tick_stats_raises ELSE
        /\ stats_timer.active
        /\ ifstats' = snap.stats
        /\ escaped' = escaped
        /\ active_adapter' = pick_active_adapter_name(snap.stats, snap.addrs)
        /\ pernic' = snap.pernic
        /\ tmono' = tm
        /\ twall' = twall + adv
        /\ nic_last' = Updated(nic_last,
                [nic \in reported |-> NicLastAfter(snap.pernic[nic], tm)])
        /\ nic_speed_total_mbps' = Updated(nic_speed_total_mbps,
                [nic \in reported |-> NicTotalAfter(nic_last, nic, snap.pernic[nic], tm)])
        /\ nic_speed_down_mbps' = Updated(nic_speed_down_mbps,
                [nic \in reported |-> NicDownAfter(nic_last, nic, snap.pernic[nic], tm)])
        /\ nic_speed_up_mbps' = Updated(nic_speed_up_mbps,
                [nic \in reported |-> NicUpAfter(nic_last, nic, snap.pernic[nic], tm)])
        /\ nic_sent_mb' = Updated(nic_sent_mb,
                [nic \in reported |-> F(snap.pernic[nic].bytes_sent, BytesPerMb)])
        /\ nic_recv_mb' = Updated(nic_recv_mb,
                [nic \in reported |-> F(snap.pernic[nic].bytes_recv, BytesPerMb)])
        /\ total_sent_mb' = F(snap.io.bytes_sent, BytesPerMb)
        /\ total_recv_mb' = F(snap.io.bytes_recv, BytesPerMb)
        /\ last_mbps_simple_total' = Get(nic_speed_total_mbps', simple_nic, Zero)
        /\ last_mbps_simple_down' = Get(nic_speed_down_mbps', simple_nic, Zero)
        /\ last_mbps_simple_up' = Get(nic_speed_up_mbps', simple_nic, Zero)
        /\ simple_hist_total' =
               DequeAppend(simple_hist_total, last_mbps_simple_total', simple_smooth_len)
        /\ simple_hist_down' =
               DequeAppend(simple_hist_down, last_mbps_simple_down', simple_smooth_len)
        /\ simple_hist_up' =
               DequeAppend(simple_hist_up, last_mbps_simple_up', simple_smooth_len)
        /\ last_mbps_graph_total' = Get(nic_speed_total_mbps', graph_nic, Zero)
        /\ t_hist' = DequeAppend(t_hist, twall', buf_len)
        /\ mbps_hist' = DequeAppend(mbps_hist, last_mbps_graph_total', buf_len)
        /\ ping_hist' = DequeAppend(ping_hist,
                                    IF last_ping_ms # None THEN ToFloat(last_ping_ms) ELSE NaN,
                                    buf_len)
        /\ nticks' = nticks + 1
        /\ UNCHANGED <<pingVars, settings, timerVars, poolVars, call>>

\* request_ping starting a task without counting it
request_ping_Uncounted ==
    /\ ping_timer.active
    /\ running' = running \cup {ping_sent + 1}
    /\ UNCHANGED <<active_adapter, nicVars, totalVars, simpleVars,
                   last_mbps_graph_total, histVars, pingVars, settings,
                   timerVars, events, tickLocals, call>>

\* request_ping dropping the tasks still running when it starts one
request_ping_CancelsInFlight ==
    /\ ping_timer.active
    /\ ping_sent' = ping_sent + 1
    /\ running' = {ping_sent'}
    /\ UNCHANGED <<active_adapter, nicVars, totalVars, simpleVars,
                   last_mbps_graph_total, histVars, last_ping_ms, ping_ok,
                   ping_fail, settings, timerVars, events, tickLocals, call>>

\* lines 1402-1406: the probe timer fires; the task is started whatever
\* tasks are still running
request_ping ==
    /\ ping_timer.active
    /\ ping_sent' = ping_sent + 1
    /\ running' = running \cup {ping_sent'}
    /\ UNCHANGED <<active_adapter, nicVars, totalVars, simpleVars,
                   last_mbps_graph_total, histVars, last_ping_ms, ping_ok,
                   ping_fail, settings, timerVars, events, tickLocals, call>>

\* a worker finishing without emitting done
PingTask_run_NoSignal(id, ms) ==
    /\ id \in running
    /\ running' = running \ {id}
    /\ UNCHANGED <<active_adapter, nicVars, totalVars, simpleVars,
                   last_mbps_graph_total, histVars, pingVars, settings,
                   timerVars, events, tickLocals, call>>

\* a worker storing the result in the window itself instead of emitting done
PingTask_run_WritesWindow(id, ms) ==
    /\ id \in running
    /\ running' = running \ {id}
    /\ last_ping_ms' = ms
    /\ IF ms.k = "int"
          THEN ping_ok' = ping_ok + 1 /\ UNCHANGED ping_fail
          ELSE ping_fail' = ping_fail + 1 /\ UNCHANGED ping_ok
    /\ UNCHANGED <<active_adapter, nicVars, totalVars, simpleVars,
                   last_mbps_graph_total, histVars, ping_sent, settings,
                   timerVars, events, tickLocals, call>>

\* lines 347-349: a worker finishes PingTask.run of task id; ms is what
\* ping_once returned, and the done signal is queued for the control thread
PingTask_run(id, ms) ==
    /\ id \in running
    /\ running' = running \ {id}
    /\ events' = Append(events, [id |-> id, ms |-> ms])
    /\ UNCHANGED <<active_adapter, nicVars, totalVars, simpleVars,
                   last_mbps_graph_total, histVars, pingVars, settings,
                   timerVars, tickLocals, call>>

\* on_ping_done keeping the last latency when a probe fails
on_ping_done_KeepsLatency ==
    /\ events # <<>>
    /\ LET ms == Head(events).ms
       IN  IF ms.k = "int"
              THEN /\ last_ping_ms' = ms
                   /\ ping_ok' = ping_ok + 1
                   /\ UNCHANGED ping_fail
              ELSE /\ ping_fail' = ping_fail + 1
                   /\ UNCHANGED <<last_ping_ms, ping_ok>>
    /\ events' = Tail(events)
    /\ UNCHANGED <<active_adapter, nicVars, totalVars, simpleVars,
                   last_mbps_graph_total, histVars, ping_sent, settings,
                   timerVars, running, tickLocals, call>>

\* on_ping_done appending the result to the latency history itself
on_ping_done_AppendsHistory ==
    /\ events # <<>>
    /\ LET ms == Head(events).ms
       IN  IF ms.k = "int"
              THEN /\ last_ping_ms' = ms
                   /\ ping_ok' = ping_ok + 1
                   /\ UNCHANGED ping_fail
              ELSE /\ last_ping_ms' = None
                   /\ ping_fail' = ping_fail + 1
                   /\ UNCHANGED ping_ok
    /\ ping_hist' = DequeAppend(ping_hist,
                                IF last_ping_ms' # None THEN ToFloat(last_ping_ms') ELSE NaN,
                                buf_len)
    /\ events' = Tail(events)
    /\ UNCHANGED <<active_adapter, nicVars, totalVars, simpleVars,
                   last_mbps_graph_total, t_hist, mbps_hist, ping_sent, settings,
                   timerVars, running, tickLocals, call>>

\* lines 1408-1418: the control thread delivers the oldest queued signal
on_ping_done ==
    /\ events # <<>>
    /\ LET ms == Head(events).ms
       IN  IF ms.k = "int"
              THEN /\ last_ping_ms' = ms
                   /\ ping_ok' = ping_ok + 1
                   /\ UNCHANGED ping_fail
              ELSE /\ last_ping_ms' = None
                   /\ ping_fail' = ping_fail + 1
                   /\ UNCHANGED ping_ok
    /\ events' = Tail(events)
    /\ UNCHANGED <<active_adapter, nicVars, totalVars, simpleVars,
                   last_mbps_graph_total, histVars, ping_sent, settings,
                   timerVars, running, tickLocals, call>>

\* lines 643-650: a value a QDoubleSpinBox of range 0.0..100000.0 with two
\* decimals can hold
InMbpsBox(v) == v.k = "fin" /\ 100 % v.d = 0 /\ v.n >= 0 /\ v.n <= 100000 * v.d

\* lines 564-668: the values the dialog can be accepted with while the
\* operating system lists the interfaces of stats: an interval or a latency
\* threshold within the range of its spin box, an adapter among the items of
\* its combo box ("active" and list_adapters()), table adapters among the
\* items of the list (list_adapters())
InDialog(stats, picked) ==
    /\ picked.stats_refresh_ms \in 250..10000
    /\ picked.ping_refresh_ms \in 500..20000
    /\ picked.simple_adapter \in {"active"} \cup StatNames(stats)
    /\ picked.graph_adapter \in {"active"} \cup StatNames(stats)
    /\ Range(picked.monitored_adapters) \subseteq StatNames(stats)
    /\ picked.good_ping_ms.k = "int" /\ picked.good_ping_ms.v \in 1..2000
    /\ picked.ok_ping_ms.k = "int" /\ picked.ok_ping_ms.v \in 1..5000
    /\ InMbpsBox(picked.good_mbps)
    /\ InMbpsBox(picked.ok_mbps)

\* open_settings that also starts the probe counters and the latest latency
\* afresh
open_settings_ResetsProbes(stats, picked) ==
    /\ InDialog(stats, picked)
    /\ settings' = picked
    /\ stats_timer' = TimerStarted(picked.stats_refresh_ms)
    /\ ping_timer' = TimerStarted(picked.ping_refresh_ms)
    /\ last_ping_ms' = None
    /\ ping_ok' = 0
    /\ ping_fail' = 0
    /\ UNCHANGED <<active_adapter, nicVars, totalVars, simpleVars,
                   last_mbps_graph_total, histVars, ping_sent, poolVars,
                   tickLocals, call>>

\* lines 1514-1540 with 796-842: the dialog is accepted with the values
\* picked; apply_to_settings writes every field from its widget, and the two
\* timers are stopped and started with the new intervals
open_settings(stats, picked) ==
    /\ InDialog(stats, picked)
    /\ settings' = [settings EXCEPT
                       !.stats_refresh_ms   = picked.stats_refresh_ms,
                       !.ping_refresh_ms    = picked.ping_refresh_ms,
                       !.simple_adapter     = picked.simple_adapter,
                       !.graph_adapter      = picked.graph_adapter,
                       !.monitored_adapters = picked.monitored_adapters,
                       !.good_ping_ms       = picked.good_ping_ms,
                       !.ok_ping_ms         = picked.ok_ping_ms,
                       !.good_mbps          = picked.good_mbps,
                       !.ok_mbps            = picked.ok_mbps]
    /\ stats_timer' = TimerStarted(picked.stats_refresh_ms)
    /\ ping_timer' = TimerStarted(picked.ping_refresh_ms)
    /\ UNCHANGED <<active_adapter, nicVars, totalVars, simpleVars,
                   last_mbps_graph_total, histVars, pingVars, poolVars,
                   tickLocals, call>>

---------------------------------------------------------------------------
(* The environment the engine is checked in *)

MaxTicks == 2

MaxPings == 2

MaxRateTicks == 3

\* what time.monotonic() and time.time() advance by between two readings
\* (ms): in the rate runs, and in the runs of the full engine
Advances == {0, 30, 1000}

TickAdvances == {1000}

\* what subprocess.run does in the probes of the full engine: the launch
\* raises, or the utility exits with code 0 and prints time=23ms
PingProcs ==
    { LaunchRaised,
      Completed(0, TimeEq \o <<"2", "3">> \o Ms, <<>>) }

\* what ping_once returns in them
PingResults == { ping_once(proc) : proc \in PingProcs }

StatsEth == << Iface("lo", TRUE, 0), Iface("eth0", TRUE, 1000) >>

StatsEthWlan == << Iface("lo", TRUE, 0), Iface("eth0", TRUE, 1000), Iface("wlan0", TRUE, 100) >>

StatsLoOnly == << Iface("lo", TRUE, 0), Iface("eth0", FALSE, 0) >>

AddrsAll ==
    [name \in {"lo", "eth0", "wlan0"} |->
        CASE name = "lo"    -> << Addr("AF_INET", "127.0.0.1") >>
          [] name = "eth0"  -> << Addr("AF_PACKET", "00:11:22:33:44:55"), Addr("AF_INET", "192.168.1.5") >>
          [] name = "wlan0" -> << Addr("AF_INET", "10.0.0.2"), Addr("AF_INET6", "fe80::1") >>]

\* the moments of the operating system the full engine is run against
Snapshots ==
    { Snapshot(StatsEth, AddrsAll, [nic \in {"eth0"} |-> Counters(1000000, 5000000)]),
      Snapshot(StatsEthWlan, AddrsAll,
               [nic \in {"eth0", "wlan0"} |->
                   IF nic = "eth0" THEN Counters(2000000, 7000000) ELSE Counters(500, 300)]),
      Snapshot(StatsLoOnly, AddrsAll, [nic \in {"eth0"} |-> Counters(3000000, 300)]) }

\* the moments of an outage: the enumeration returns no interface, or raises
OutageSnapshots ==
    { Snapshot(<<>>, EmptyMap, EmptyMap),
      Snapshot(PsutilError, EmptyMap, EmptyMap) }

\* the counters one interface may report in the rate runs
EthCounters == { Counters(500, 300), Counters(1000000, 5000000),
                 Counters(2000000, 7000000), Counters(2000000, 300) }

WlanCounters == { Counters(500, 300) }

PernicOf(e, w) ==
    [nic \in (IF e = Absent THEN {} ELSE {"eth0"}) \cup (IF w = Absent THEN {} ELSE {"wlan0"}) |->
        IF nic = "eth0" THEN e ELSE w]

\* the moments of the operating system of the rate runs: eth0 and wlan0 each
\* absent or reporting one of its counters
RateSnapshots ==
    { Snapshot(StatsEthWlan, AddrsAll, PernicOf(e, w)) :
        e \in EthCounters \cup {Absent}, w \in WlanCounters \cup {Absent} }

\* the settings file at the start: missing, or written by an earlier run or
\* by hand: it names adapters ("usb0" is reported by no snapshot), an
\* interval below the range, and thresholds
SettingsFiles ==
    { NoFile,
      [simple_adapter     |-> "usb0",
       graph_adapter      |-> "",
       monitored_adapters |-> <<"active", "usb0", "eth0">>,
       stats_refresh_ms   |-> 100,
       good_ping_ms       |-> PyInt(200),
       ok_ping_ms         |-> PyInt(100),
       ok_mbps            |-> F(-1, 1)] }

\* what load_settings returns on them
LoadedSettings == { load_settings(file) : file \in SettingsFiles }

\* what the dialog may be accepted with
DialogPicks ==
    { [stats_refresh_ms |-> 250, ping_refresh_ms |-> 500,
       simple_adapter |-> "eth0", graph_adapter |-> "active",
       monitored_adapters |-> <<"eth0">>,
       good_ping_ms |-> PyInt(2000), ok_ping_ms |-> PyInt(1),
       good_mbps |-> Zero, ok_mbps |-> F(1, 2)] }

---------------------------------------------------------------------------
(* Specifications *)

\* The full engine: stats ticks, probe ticks, probe completions and accepted
\* settings dialogs, in any interleaving.
Init ==
    /\ \E snap \in Snapshots, loaded \in LoadedSettings : InitWindow(snap, loaded)
    /\ call = NoCall

StatsTick ==
    /\ nticks < MaxTicks
    /\ \E snap \in Snapshots, adv \in TickAdvances : tick_stats(snap, adv)

PingTick ==
    /\ ping_sent < MaxPings
    /\ request_ping

PingFinished == \E id \in running, ms \in PingResults : PingTask_run(id, ms)

PingDelivered == on_ping_done

SettingsAccepted ==
    \E snap \in Snapshots, picked \in DialogPicks : open_settings(snap.stats, picked)

Next ==
    \/ StatsTick
    \/ PingTick
    \/ PingFinished
    \/ PingDelivered
    \/ SettingsAccepted

Spec == Init /\ [][Next]_vars

\* The sampling of a window whose settings stay the defaults: stats ticks,
\* probe ticks, probe completions and deliveries, in any interleaving.
InitSampling ==
    /\ \E snap \in Snapshots : InitWindow(snap, DefaultSettings)
    /\ call = NoCall

NextSampling ==
    \/ StatsTick
    \/ PingTick
    \/ PingFinished
    \/ PingDelivered

SpecSampling == InitSampling /\ [][NextSampling]_vars

\* The probes of the engine when every ping process terminates, the pool
\* runs every task it was given (QThreadPool.start, line 1406) and the event
\* loop of the control thread delivers the queued signals.  Probe ticks,
\* completions, deliveries and accepted dialogs interleave; the stats ticks,
\* which read the latest latency and write nothing a probe reads, are left
\* to Spec.
InitLive == Init

NextLive ==
    \/ PingTick
    \/ PingFinished
    \/ PingDelivered
    \/ SettingsAccepted

SpecLive ==
    /\ InitLive
    /\ [][NextLive]_vars
    /\ \A id \in 1..MaxPings : WF_vars(\E ms \in PingResults : PingTask_run(id, ms))
    /\ WF_vars(PingDelivered)

\* The rate sampler alone: stats ticks over every combination of the
\* counters of RateSnapshots.
InitRate ==
    /\ InitWindow(Snapshot(StatsEthWlan, AddrsAll, EmptyMap), DefaultSettings)
    /\ call = NoCall

RateTick ==
    /\ nticks < MaxRateTicks
    /\ \E snap \in RateSnapshots, adv \in Advances : tick_stats(snap, adv)

NextRate == RateTick

SpecRate == InitRate /\ [][NextRate]_vars

\* The stats ticks of a window while the enumeration of the interfaces may
\* fail: at each tick it returns the interfaces of one of Snapshots, returns
\* none, or raises.
MaxOutageTicks == 3

InitOutage == Init

OutageTick ==
    /\ nticks < MaxOutageTicks
    /\ \E snap \in Snapshots \cup OutageSnapshots, adv \in TickAdvances :
           tick_stats(snap, adv)

NextOutage == OutageTick

SpecOutage == InitOutage /\ [][NextOutage]_vars

---------------------------------------------------------------------------
(* The pure functions, each called once on arguments drawn at the start.   *)
(* No window is constructed in these runs.                                  *)

NoWindow == [k |-> "no window"]

InitNoWindow ==
    /\ active_adapter = NoWindow
    /\ nic_last = NoWindow
    /\ nic_speed_total_mbps = NoWindow
    /\ nic_speed_down_mbps = NoWindow
    /\ nic_speed_up_mbps = NoWindow
    /\ nic_sent_mb = NoWindow
    /\ nic_recv_mb = NoWindow
    /\ total_sent_mb = NoWindow
    /\ total_recv_mb = NoWindow
    /\ last_ping_ms = NoWindow
    /\ last_mbps_simple_total = NoWindow
    /\ last_mbps_simple_down = NoWindow
    /\ last_mbps_simple_up = NoWindow
    /\ last_mbps_graph_total = NoWindow
    /\ simple_hist_total = NoWindow
    /\ simple_hist_down = NoWindow
    /\ simple_hist_up = NoWindow
    /\ ping_sent = NoWindow
    /\ ping_ok = NoWindow
    /\ ping_fail = NoWindow
    /\ t_hist = NoWindow
    /\ mbps_hist = NoWindow
    /\ ping_hist = NoWindow
    /\ settings = NoWindow
    /\ stats_timer = NoWindow
    /\ ping_timer = NoWindow
    /\ running = NoWindow
    /\ events = NoWindow
    /\ pernic = NoWindow
    /\ tmono = NoWindow
    /\ twall = NoWindow
    /\ nticks = NoWindow
    /\ ifstats = NoWindow
    /\ escaped = NoWindow

MaxSeriesLen == 2

\* the values classified: absent, not-a-number, infinite, latencies around
\* the default thresholds 60 and 150, rates around 5.0 and 0.5
ClassifyValues ==
    {None, NaN, PInf, NInf}
    \cup {PyInt(v) : v \in {0, 59, 60, 61, 149, 150, 151}}
    \cup {F(v, 10) : v \in {1, 4, 5, 6, 30, 49, 50, 51, 60}}

\* (good, ok): the defaults of lines 153-156, and the same the other way round
ThresholdPairs ==
    { <<PyInt(60), PyInt(150)>>, <<F(5, 1), F(1, 2)>>,
      <<PyInt(150), PyInt(60)>>, <<F(1, 2), F(5, 1)>> }

\* the samples of a series
SeriesValues == {None, NaN, PInf, F(1, 10), F(3, 1), F(6, 1), PyInt(23)}

SeriesOfLen(n) == [1..n -> SeriesValues]

\* the x coordinates of a series of n samples
XsOfLen(n) == [i \in 1..n |-> 1000 * i]

QualityColorCalls ==
    { [fn |-> "quality_color", value |-> v, good |-> t[1], ok |-> t[2],
       invert |-> inv, done |-> FALSE, ret |-> None] :
        v \in ClassifyValues, t \in ThresholdPairs, inv \in BOOLEAN }

SplitCalls ==
    { [fn |-> "split_series_by_quality", xs |-> XsOfLen(Len(ys)), ys |-> ys,
       good |-> t[1], ok |-> t[2], invert |-> inv, done |-> FALSE, ret |-> None] :
        ys \in UNION {SeriesOfLen(n) : n \in 0..MaxSeriesLen},
        t \in {<<PyInt(60), PyInt(150)>>, <<F(5, 1), F(1, 2)>>},
        inv \in BOOLEAN }

InitClassify ==
    /\ InitNoWindow
    /\ call \in QualityColorCalls \cup SplitCalls

CallQualityColor ==
    /\ call.fn = "quality_color"
    /\ ~call.done
    /\ call' = [call EXCEPT !.done = TRUE,
                            !.ret = quality_color(call.value, call.good, call.ok, call.invert)]
    /\ UNCHANGED engineVars

CallSplit ==
    /\ call.fn = "split_series_by_quality"
    /\ ~call.done
    /\ call' = [call EXCEPT !.done = TRUE,
                            !.ret = split_series_by_quality(call.xs, call.ys, call.good,
                                                            call.ok, call.invert)]
    /\ UNCHANGED engineVars

NextClassify ==
    \/ CallQualityColor
    \/ CallSplit

SpecClassify == InitClassify /\ [][NextClassify]_vars

MaxIfaces == 2

\* the names, link speeds and address lists of the interfaces picked among
PickNames == {"lo", "Loopback", "eth0", "wlan0", "tun0"}

PickSpeeds == {0, 100}

\* the addresses of one interface in net_if_addrs(); Absent: the dict has no
\* entry for the interface
PickAddrs ==
    { Absent,
      << Addr("AF_INET", "127.0.0.1"), Addr("AF_INET6", "fe80::1"), Addr("AF_INET", "") >>,
      << Addr("AF_PACKET", "00:11:22:33:44:55"), Addr("AF_INET", "192.168.1.5") >>,
      << Addr("AF_INET", "10.0.0.2"), Addr("AF_INET", "192.168.1.5") >> }

PickIfaces ==
    [name : PickNames, isup : BOOLEAN, speed : PickSpeeds, addrs : PickAddrs]

\* the interface tables of n interfaces, the names distinct
PickTables(n) ==
    { t \in [1..n -> PickIfaces] : \A i, j \in 1..n : i # j => t[i].name # t[j].name }

\* net_if_stats() of a table
StatsOf(t) == [i \in 1..Len(t) |-> Iface(t[i].name, t[i].isup, t[i].speed)]

\* net_if_addrs() of a table
AddrsOf(t) ==
    [name \in {t[i].name : i \in {j \in 1..Len(t) : t[j].addrs # Absent}} |->
        t[CHOOSE i \in 1..Len(t) : t[i].name = name].addrs]

\* a call on the table t, not yet made
PickCall(t) ==
    [fn |-> "pick_active_adapter_name", stats |-> StatsOf(t), addrs |-> AddrsOf(t),
     done |-> FALSE, ret |-> ""]

InitPick ==
    /\ InitNoWindow
    /\ \E n \in 0..MaxIfaces : \E t \in PickTables(n) : call = PickCall(t)

CallPick ==
    /\ call.fn = "pick_active_adapter_name"
    /\ ~call.done
    /\ call' = [call EXCEPT !.done = TRUE,
                            !.ret = pick_active_adapter_name(call.stats, call.addrs)]
    /\ UNCHANGED engineVars

NextPick == CallPick

SpecPick == InitPick /\ [][NextPick]_vars

MaxChunks == 4

\* the pieces the output of the ping utility is made of: the prefixes and
\* units of lines 308-322, blanks, "<", latencies and text that is no number
PingChunks ==
    { TimeEq, <<"T", "i", "m", "e", "=">>, Ms, <<" ">>, <<"<">>,
      <<"2", "3">>, <<"0", ".", "5">>, <<"1", ".", "5">>, <<"-", "5">>,
      <<"n", "a", "n">>, RuTimeEq, RuMs }

RECURSIVE Flatten(_)
Flatten(chunks) == IF chunks = <<>> THEN <<>> ELSE Head(chunks) \o Flatten(Tail(chunks))

Platforms == {"win32", "linux", "darwin"}

TimeoutsMs == {DefaultTimeoutMs, 250}

\* a call of ping_once, not yet made, on a platform, with subprocess.run
\* doing proc; chunks are the pieces of the captured output
PingCall(platform, timeout_ms, proc, chunks) ==
    [fn |-> "ping_once", platform |-> platform, host |-> DefaultHost,
     timeout_ms |-> timeout_ms, proc |-> proc, chunks |-> chunks,
     done |-> FALSE, ret |-> None, cmd |-> <<>>]

\* the latency 23 ms printed on stdout; and printed across stdout and stderr
Out23 == <<TimeEq, <<"2", "3">>, Ms>>

InitPing ==
    /\ InitNoWindow
    /\ \/ \E n \in 0..MaxChunks : \E chunks \in [1..n -> PingChunks] :
              \E returncode \in {0, 1} :
                  call = PingCall("linux", DefaultTimeoutMs,
                                  Completed(returncode, Flatten(chunks), <<>>), chunks)
       \/ \E platform \in Platforms, timeout_ms \in TimeoutsMs :
              \/ call = PingCall(platform, timeout_ms, LaunchRaised, <<>>)
              \/ call = PingCall(platform, timeout_ms,
                                 Completed(0, Flatten(Out23), <<>>), Out23)
              \/ call = PingCall(platform, timeout_ms,
                                 Completed(0, TimeEq \o <<"2", "3">>, Ms), Out23)

CallPing ==
    /\ call.fn = "ping_once"
    /\ ~call.done
    /\ call' = [call EXCEPT !.done = TRUE,
                            !.ret = ping_once(call.proc),
                            !.cmd = ping_cmd(call.platform, call.host, call.timeout_ms)]
    /\ UNCHANGED engineVars

NextPing == CallPing

SpecPing == InitPing /\ [][NextPing]_vars

-----------------------------------------------------------------------------
(* Properties of the rate computation, checked under SpecRate               *)

\* the step is a statistics tick
IsTick == nticks' = nticks + 1

\* C1: after every tick, for every adapter that has rates stored, the stored
\* total rate is exactly the stored upload rate plus the stored download rate
C1_TotalIsUpPlusDown ==
    \A nic \in DOMAIN nic_speed_total_mbps :
        /\ nic \in DOMAIN nic_speed_up_mbps
        /\ nic \in DOMAIN nic_speed_down_mbps
        /\ nic_speed_total_mbps[nic] =
               FAdd(nic_speed_up_mbps[nic], nic_speed_down_mbps[nic])

\* a tick has stored a positive rate in both directions for some adapter
C1_Witness ==
    /\ nticks >= 2
    /\ \E nic \in DOMAIN nic_speed_total_mbps :
           /\ nic_speed_up_mbps[nic].n > 0
           /\ nic_speed_down_mbps[nic].n > 0

\* every stored rate is a number that is not negative
C2_NonNegative ==
    \A nic \in DOMAIN nic_speed_total_mbps :
        /\ nic_speed_up_mbps[nic].k = "fin"
        /\ nic_speed_down_mbps[nic].k = "fin"
        /\ nic_speed_total_mbps[nic].k = "fin"
        /\ nic_speed_up_mbps[nic].n >= 0
        /\ nic_speed_down_mbps[nic].n >= 0
        /\ nic_speed_total_mbps[nic].n >= 0

\* a counter that reads lower than its baseline gives a zero rate on that tick
C2_ClampStep ==
    \A nic \in DOMAIN nic_last \cap DOMAIN pernic' :
        /\ pernic'[nic].bytes_sent < nic_last[nic].sent
               => nic_speed_up_mbps'[nic] = Zero
        /\ pernic'[nic].bytes_recv < nic_last[nic].recv
               => nic_speed_down_mbps'[nic] = Zero

\* C2: the upload, download and total rates stored for any adapter are never
\* negative, and on a tick where an adapter's sent or received counter reads
\* lower than the stored baseline, the rate of that direction is zero
C2_RatesNeverNegative ==
    /\ []C2_NonNegative
    /\ [][IsTick => C2_ClampStep]_vars

\* eth0 went from (1000000, 5000000) to (2000000, 300) in one second: the
\* received counter fell and gave 0, the sent counter rose and gave 8.0
C2_Witness ==
    /\ "eth0" \in DOMAIN nic_last
    /\ nic_last["eth0"].sent = 2000000
    /\ nic_last["eth0"].recv = 300
    /\ nic_speed_up_mbps["eth0"] = F(8, 1)
    /\ nic_speed_down_mbps["eth0"] = Zero

\* the rates of a tick for an adapter with a baseline, as the formula gives
\* them: dt is at least 50 ms, a delta is at least 0
C3_Step ==
    \A nic \in DOMAIN nic_last \cap DOMAIN pernic' :
        LET elapsed == tmono' - nic_last[nic].tm
            dt_ms   == IF elapsed < 50 THEN 50 ELSE elapsed
            sent    == pernic'[nic].bytes_sent - nic_last[nic].sent
            recv    == pernic'[nic].bytes_recv - nic_last[nic].recv
            d_sent  == IF sent < 0 THEN 0 ELSE sent
            d_recv  == IF recv < 0 THEN 0 ELSE recv
        IN  /\ nic_speed_up_mbps'[nic] = F(d_sent * 8, dt_ms * 1000)
            /\ nic_speed_down_mbps'[nic] = F(d_recv * 8, dt_ms * 1000)

\* 1,000,000 -> 2,000,000 sent and 5,000,000 -> 7,000,000 received over 1.0 s
C3_Scenario ==
    ( /\ "eth0" \in DOMAIN nic_last \cap DOMAIN pernic'
      /\ nic_last["eth0"].sent = 1000000
      /\ nic_last["eth0"].recv = 5000000
      /\ pernic'["eth0"] = Counters(2000000, 7000000)
      /\ tmono' - nic_last["eth0"].tm = 1000 )
    => /\ nic_speed_up_mbps'["eth0"] = F(8, 1)
       /\ nic_speed_down_mbps'["eth0"] = F(16, 1)
       /\ nic_speed_total_mbps'["eth0"] = F(24, 1)

\* C3: on a tick, for an adapter seen before, with dt = max(50 ms, now - the
\* baseline's timestamp): up = max(0, sent delta) * 8 / dt / 1e6 and down the
\* same from the received delta; the scenario of the claim gives 8.0, 16.0, 24.0
C3_RateFormula == [][IsTick => (C3_Step /\ C3_Scenario)]_vars

\* the scenario of the claim has happened
C3_Witness ==
    /\ "eth0" \in DOMAIN nic_last
    /\ nic_last["eth0"].sent = 2000000
    /\ nic_last["eth0"].recv = 7000000
    /\ nic_speed_up_mbps["eth0"] = F(8, 1)
    /\ nic_speed_down_mbps["eth0"] = F(16, 1)
    /\ nic_speed_total_mbps["eth0"] = F(24, 1)

\* an adapter reported with no baseline gets zero rates and its counters and
\* the tick's time become its baseline
C4_FirstSeen ==
    \A nic \in DOMAIN pernic' \ DOMAIN nic_last :
        /\ nic_speed_up_mbps'[nic] = Zero
        /\ nic_speed_down_mbps'[nic] = Zero
        /\ nic_speed_total_mbps'[nic] = Zero
        /\ nic_last'[nic] = [sent |-> pernic'[nic].bytes_sent,
                             recv |-> pernic'[nic].bytes_recv,
                             tm   |-> tmono']

\* C4: the first tick that sees an adapter stores 0.0 for its three rates
\* whatever its counters read, and records the counters as the baseline the
\* next tick's deltas are taken against
C4_FirstSeenIsZero == [][IsTick => (C4_FirstSeen /\ C3_Step)]_vars

\* eth0 first seen with 500 sent and 300 received on the first tick
C4_Witness ==
    /\ nticks = 1
    /\ "eth0" \in DOMAIN nic_last
    /\ nic_last["eth0"].sent = 500
    /\ nic_last["eth0"].recv = 300
    /\ nic_speed_up_mbps["eth0"] = Zero
    /\ nic_speed_down_mbps["eth0"] = Zero
    /\ nic_speed_total_mbps["eth0"] = Zero

-----------------------------------------------------------------------------
(* Properties of the histories, checked under Spec                          *)

\* C5: the time, throughput and latency histories hold exactly 240 entries
\* each in every reachable state
C5_HistoryLengths ==
    /\ Len(t_hist) = 240
    /\ Len(mbps_hist) = 240
    /\ Len(ping_hist) = 240

\* ticks have run, a probe has completed with a latency that a later tick
\* put in the history, and the settings dialog has been accepted
C5_Witness ==
    /\ nticks >= 2
    /\ ping_ok + ping_fail >= 1
    /\ stats_timer.interval = 250
    /\ ping_hist[Len(ping_hist)] = F(23, 1)

-----------------------------------------------------------------------------
(* Properties of the classification, checked under SpecClassify             *)

\* a <= b of two finite numbers
C6_Le(a, b) == a.n * b.d <= b.n * a.d

\* the tier of a finite value x: the first threshold it reaches, taken
\* downwards for a latency (invert) and upwards for a rate
C6_Tier(x, good, ok, invert) ==
    IF invert
        THEN (IF C6_Le(x, good) THEN GREEN
              ELSE IF C6_Le(x, ok) THEN YELLOW ELSE RED)
        ELSE (IF C6_Le(good, x) THEN GREEN
              ELSE IF C6_Le(ok, x) THEN YELLOW ELSE RED)

\* C6: quality_color returns Good iff the value reaches the good threshold,
\* else Acceptable iff it reaches the ok threshold, else Poor (<= for a
\* latency, >= for a rate), and Poor for an absent, not-a-number or infinite
\* value; with good = 5.0 and ok = 0.5, 3.0 is Acceptable, 6.0 Good, 0.1 Poor
C6_Classify ==
    (call.fn = "quality_color" /\ call.done) =>
        /\ call.value \in {None, NaN, PInf, NInf} => call.ret = RED
        /\ call.value \notin {None, NaN, PInf, NInf} =>
               call.ret = C6_Tier(ToFloat(call.value), ToFloat(call.good),
                                  ToFloat(call.ok), call.invert)
        /\ (call.good = F(5, 1) /\ call.ok = F(1, 2) /\ ~call.invert) =>
               /\ call.value = F(3, 1) => call.ret = YELLOW
               /\ call.value = F(6, 1) => call.ret = GREEN
               /\ call.value = F(1, 10) => call.ret = RED

\* 3.0 has been classified against good = 5.0, ok = 0.5 and found Acceptable
C6_Witness ==
    /\ call.fn = "quality_color"
    /\ call.done
    /\ call.value = F(3, 1)
    /\ call.good = F(5, 1)
    /\ call.ok = F(1, 2)
    /\ ~call.invert
    /\ call.ret = YELLOW

\* the three series of a result
C7_Series == {"green", "yellow", "red"}

\* C7: split_series_by_quality returns three series of the length and the x
\* coordinates of the input, and at every index one of the three holds the
\* sample and the other two the gap marker, whatever the samples are, absent
\* and not-a-number samples included
C7_SplitPartition ==
    (call.fn = "split_series_by_quality" /\ call.done) =>
        /\ ~call.ret.raised
        /\ \A s \in C7_Series :
               /\ call.ret[s].x = call.xs
               /\ Len(call.ret[s].y) = Len(call.ys)
        /\ \A i \in 1..Len(call.ys) :
               \E s \in C7_Series :
                   /\ call.ret[s].y[i] = ToFloat(call.ys[i])
                   /\ \A o \in C7_Series \ {s} : call.ret[o].y[i] = NaN

-----------------------------------------------------------------------------
(* Properties of the choice of the active adapter, checked under SpecPick   *)

\* the call has been made
C8_Picked == call.fn = "pick_active_adapter_name" /\ call.done

\* interface j is up and not loopback-named, the other up and loopback-named
C8_OneOfTwo(i, j) ==
    /\ Len(call.stats) = 2
    /\ i # j
    /\ call.stats[i].isup
    /\ call.stats[j].isup
    /\ NameStartsLo(call.stats[i].name)
    /\ ~NameStartsLo(call.stats[j].name)

\* C8 as stated: of two up interfaces, one loopback-named and one not, the
\* one that is not is returned whatever the speeds, addresses and names
C8_NonLoopbackAlways ==
    C8_Picked =>
        \A i, j \in 1..Len(call.stats) :
            C8_OneOfTwo(i, j) => call.ret = call.stats[j].name

\* C8: of two up interfaces, one loopback-named and one neither loopback-named
\* nor matching the deny-list, the latter is returned whatever the speeds and
\* addresses of the two
C8_NonLoopbackUndenied ==
    C8_Picked =>
        \A i, j \in 1..Len(call.stats) :
            (C8_OneOfTwo(i, j) /\ ~NameDenied(call.stats[j].name))
                => call.ret = call.stats[j].name

\* lo comes first, has the speed and two IPv4 addresses; eth0 has neither
\* speed nor addresses, and is returned
C8_Witness ==
    /\ C8_Picked
    /\ Len(call.stats) = 2
    /\ call.stats[1] = Iface("lo", TRUE, 100)
    /\ call.stats[2] = Iface("eth0", TRUE, 0)
    /\ "lo" \in DOMAIN call.addrs
    /\ "eth0" \notin DOMAIN call.addrs
    /\ call.ret = "eth0"

\* the addresses that count for the score of interface i
C9_Ipv4(i) ==
    LET name == call.stats[i].name
        as   == IF name \in DOMAIN call.addrs THEN call.addrs[name] ELSE <<>>
    IN  { k \in 1..Len(as) : /\ as[k].family = "AF_INET"
                             /\ as[k].address \notin {"", "127.0.0.1"} }

\* ten times the score of interface i: 100 for each address, plus the speed
C9_Score10(i) == 100 * Cardinality(C9_Ipv4(i)) + call.stats[i].speed

\* interface i survives the filtering
C9_Survives(i) ==
    /\ call.stats[i].isup
    /\ ~NameStartsLo(call.stats[i].name)
    /\ ~NameDenied(call.stats[i].name)

\* interface i survives with the highest score
C9_Best(i) ==
    /\ C9_Survives(i)
    /\ \A j \in 1..Len(call.stats) : C9_Survives(j) => C9_Score10(j) <= C9_Score10(i)

\* C9 as stated: the surviving candidate with the highest score is returned,
\* and of several with the highest score the first in enumeration order
C9_TieFirstEnumerated ==
    C8_Picked =>
        \A i \in 1..Len(call.stats) :
            (C9_Best(i) /\ \A j \in 1..(i - 1) : ~C9_Best(j))
                => call.ret = call.stats[i].name

\* C9: the surviving candidate with the highest score 10 x (number of IPv4
\* addresses other than the empty one and 127.0.0.1) + speed / 10 is
\* returned, and of several with the highest score the one whose name is the
\* greatest in the order of strings
C9_TieGreatestName ==
    C8_Picked =>
        \A i \in 1..Len(call.stats) :
            (C9_Best(i) /\ \A j \in 1..Len(call.stats) :
                               (C9_Best(j) /\ j # i)
                                   => NameLt(call.stats[j].name, call.stats[i].name))
                => call.ret = call.stats[i].name

\* eth0 and wlan0 in this order share the highest score, wlan0 is returned
C9_Witness ==
    /\ C8_Picked
    /\ Len(call.stats) = 2
    /\ call.stats[1].name = "eth0"
    /\ call.stats[2].name = "wlan0"
    /\ C9_Best(1)
    /\ C9_Best(2)
    /\ C9_Score10(1) = 300
    /\ call.ret = "wlan0"

\* C10: when no up interface survives the filtering, an interface that is up
\* is returned, never one that is down; when no interface is up, or none is
\* reported, the "no network" sentinel is returned
C10_Fallback ==
    C8_Picked =>
        LET ups == { i \in 1..Len(call.stats) : call.stats[i].isup }
        IN  /\ (ups # {} /\ \A i \in ups : ~C9_Survives(i))
                   => \E i \in ups : call.ret = call.stats[i].name
            /\ ups = {} => call.ret = NO_NETWORK

\* eth0 comes first and is down, tun0 is up and denied: tun0 is returned
C10_Witness ==
    /\ C8_Picked
    /\ Len(call.stats) = 2
    /\ call.stats[1].name = "eth0"
    /\ ~call.stats[1].isup
    /\ call.stats[2].name = "tun0"
    /\ call.stats[2].isup
    /\ call.ret = "tun0"

-----------------------------------------------------------------------------
(* Properties of ping_once, checked under SpecPing                          *)

\* ping_once has been called and the process completed
C11_Completed == call.fn = "ping_once" /\ call.done /\ ~call.proc.raised

\* the text of the pieces strictly between pieces i and j, without blanks
\* and without "<"
C11_Inside(i, j) ==
    TextRemove(TextRemove(Flatten(SubSeq(call.chunks, i + 1, j - 1)), " "), "<")

\* pieces i and j are a prefix (in any case) and its unit
C11_Encloses(i, j, prefix, unit) ==
    /\ i < j
    /\ TextLower(call.chunks[i]) = prefix
    /\ call.chunks[j] = unit

\* pieces i..j are a token time=<N>ms: the prefix, a number, the unit
C11_Token(i, j) ==
    /\ C11_Encloses(i, j, TimeEq, Ms)
    /\ PyFloat(C11_Inside(i, j)).k = "fin"

\* the number of the token, rounded
C11_Rounded(i, j) == PyInt(RoundHalfEven(PyFloat(C11_Inside(i, j))))

\* C11 as stated: with exit code 0 and a token time=<N>ms in the output the
\* result is N rounded; with exit code 0 and no such token, or with another
\* exit code, the result is absent
C11_TokenOrAbsent ==
    C11_Completed =>
        LET pieces == 1..Len(call.chunks)
            tokens == { t \in pieces \X pieces : C11_Token(t[1], t[2]) }
        IN  /\ (call.proc.returncode = 0 /\ tokens # {}) =>
                   \E t \in tokens : call.ret = C11_Rounded(t[1], t[2])
            /\ (call.proc.returncode = 0 /\ tokens = {}) => call.ret = None
            /\ call.proc.returncode # 0 => call.ret = None

\* the first prefix and the first unit after it enclose a text: the result
\* is its number rounded, a half going to the even integer, and absent when
\* it is no finite number
C11_FirstPair(i, j, prefix, unit) ==
    /\ C11_Encloses(i, j, prefix, unit)
    /\ \A k \in 1..(i - 1) : TextLower(call.chunks[k]) # prefix
    /\ \A k \in (i + 1)..(j - 1) : call.chunks[k] # unit

C11_Parsed(i, j) ==
    IF PyFloat(C11_Inside(i, j)).k = "fin" THEN C11_Rounded(i, j) ELSE None

\* C11: with exit code 0 the result is read between the first time= and the
\* first ms after it, or when there is no such pair between the first
\* Cyrillic prefix and the first Cyrillic unit after it: the number there
\* rounded half to even (23 for 23, 0 for 0.5, 2 for 1.5, -5 for -5), absent
\* when it is no finite number; with no pair of either kind, with another
\* exit code, or when the launch raises, the result is absent
C11_FirstTokenOrAbsent ==
    (call.fn = "ping_once" /\ call.done) =>
        LET pieces == 1..Len(call.chunks)
            en == { t \in pieces \X pieces : C11_FirstPair(t[1], t[2], TimeEq, Ms) }
            ru == { t \in pieces \X pieces : C11_FirstPair(t[1], t[2], RuTimeEq, RuMs) }
        IN  IF call.proc.raised THEN call.ret = None
            ELSE IF call.proc.returncode # 0 THEN call.ret = None
            ELSE /\ \A t \in en : call.ret = C11_Parsed(t[1], t[2])
                 /\ en = {} => \A t \in ru : call.ret = C11_Parsed(t[1], t[2])
                 /\ (en = {} /\ ru = {}) => call.ret = None
                 /\ call.chunks = <<TimeEq, <<"2", "3">>, Ms>> => call.ret = PyInt(23)
                 /\ call.chunks = <<TimeEq, <<"0", ".", "5">>, Ms>> => call.ret = PyInt(0)
                 /\ call.chunks = <<TimeEq, <<"1", ".", "5">>, Ms>> => call.ret = PyInt(2)
                 /\ call.chunks = <<TimeEq, <<"-", "5">>, Ms>> => call.ret = PyInt(-5)

\* the utility exited with code 0 having printed time=23ms: the result is 23
C11_Witness ==
    /\ C11_Completed
    /\ call.proc.returncode = 0
    /\ call.proc.stderr = <<>>
    /\ call.chunks = <<TimeEq, <<"2", "3">>, Ms>>
    /\ call.ret = PyInt(23)

\* C12: every result of ping_once is absent or an integer number of
\* milliseconds that is not negative, whatever the utility prints
C12_NonNegativeOrAbsent ==
    (call.fn = "ping_once" /\ call.done) =>
        \/ call.ret = None
        \/ call.ret.k = "int" /\ call.ret.v >= 0

\* C15: on every platform the command ping_once runs carries the timeout of
\* the probe among its arguments
C15_TimeoutInCommand ==
    (call.fn = "ping_once" /\ call.done) =>
        \E k \in 1..Len(call.cmd) : call.cmd[k] = IntToText(call.timeout_ms)

-----------------------------------------------------------------------------
(* Properties of the probes, checked under Spec                             *)

\* the step delivers a completion to on_ping_done
IsDelivery == events # <<>> /\ events' = Tail(events)

\* the step is a probe tick
IsPingTick == ping_sent' = ping_sent + 1

\* the completion delivered increments one counter by one and sets the
\* latest latency to its result
C13_Delivery ==
    LET ms == Head(events).ms
    IN  /\ ms.k = "int" =>
               /\ ping_ok' = ping_ok + 1
               /\ ping_fail' = ping_fail
               /\ last_ping_ms' = ms
        /\ ms = None =>
               /\ ping_fail' = ping_fail + 1
               /\ ping_ok' = ping_ok
               /\ last_ping_ms' = None
        /\ ms.k = "int" \/ ms = None
        /\ ping_sent' = ping_sent

\* C13: each completion delivered to on_ping_done increments exactly one
\* counter by one, ok for an integer result and fail for an absent one, and
\* sets the latest latency to that result; a probe that failed, the launch
\* having raised, is delivered as an absent result; no other step changes
\* the two counters or the latest latency
C13_OneCounterPerCompletion ==
    [][ /\ IsDelivery => C13_Delivery
        /\ ~IsDelivery => UNCHANGED <<ping_ok, ping_fail, last_ping_ms>> ]_vars

\* a success and then a failure have been delivered
C13_Witness ==
    /\ ping_sent = 2
    /\ ping_ok = 1
    /\ ping_fail = 1
    /\ last_ping_ms = None
    /\ events = <<>>

\* no probe is lost: each one sent is running, queued or counted
C14_NoneLost ==
    ping_sent = Cardinality(running) + Len(events) + ping_ok + ping_fail

\* C14: a probe tick starts a new probe and leaves the probes in flight
\* running; every probe sent stays running or queued until it is counted;
\* the latest latency is the result of the completion delivered last,
\* whichever probe it comes from
C14_NoCancelLastWins ==
    /\ []C14_NoneLost
    /\ [][ /\ IsPingTick =>
                  /\ running' = running \cup {ping_sent'}
                  /\ events' = events
           /\ IsDelivery =>
                  last_ping_ms' = (IF Head(events).ms.k = "int"
                                      THEN Head(events).ms ELSE None) ]_vars

\* probe 2, started while probe 1 was running, has completed with 23 ms and
\* has been applied; the failure of probe 1 completed later and is queued
C14_Witness ==
    /\ ping_sent = 2
    /\ running = {}
    /\ events = << [id |-> 1, ms |-> None] >>
    /\ last_ping_ms = PyInt(23)
    /\ ping_ok = 1
    /\ ping_fail = 0

---------------------------------------------------------------------------
(* Properties of the adapter selection, checked under Spec *)

\* the adapter a configured value stands for at the read a tick has just
\* made: the active adapter for "active" or an empty value, the name itself
\* when the operating system reports it, the active adapter otherwise
C16_Adapter(value) ==
    CASE value \in {"", "active"}        -> active_adapter'
      [] value \in StatNames(ifstats')   -> value
      [] OTHER                           -> active_adapter'

\* C16: at every stats tick the simple view and the graph show the rates of
\* the adapter their setting stands for at that read: the active adapter for
\* "active" or an empty value, the named adapter when it is currently
\* reported, the active adapter when it is not; no exception leaves the tick.
C16_ResolvedAtEveryRead ==
    [][IsTick =>
        /\ last_mbps_simple_total' =
               Get(nic_speed_total_mbps', C16_Adapter(settings.simple_adapter), Zero)
        /\ last_mbps_simple_down' =
               Get(nic_speed_down_mbps', C16_Adapter(settings.simple_adapter), Zero)
        /\ last_mbps_simple_up' =
               Get(nic_speed_up_mbps', C16_Adapter(settings.simple_adapter), Zero)
        /\ last_mbps_graph_total' =
               Get(nic_speed_total_mbps', C16_Adapter(settings.graph_adapter), Zero)
        /\ escaped' = escaped]_vars

\* the simple view is set to "usb0", which is not reported, the graph to an
\* empty value, and both show the non-zero rate of the active adapter eth0
C16_Witness ==
    /\ nticks = 2
    /\ settings.simple_adapter = "usb0"
    /\ settings.graph_adapter = ""
    /\ "usb0" \notin StatNames(ifstats)
    /\ active_adapter = "eth0"
    /\ last_mbps_simple_total # Zero
    /\ last_mbps_simple_total = nic_speed_total_mbps["eth0"]
    /\ last_mbps_graph_total = nic_speed_total_mbps["eth0"]

\* C17: the table a stats tick draws has one row per entry of the configured
\* list, in order, for the adapter the entry stands for at that read ("active"
\* and a name that is not reported stand for the active adapter); no entry
\* is dropped.  Stated for the ticks after which the active adapter has
\* rates to show.
C17_RowPerEntry ==
    [][IsTick /\ active_adapter' \in DOMAIN nic_speed_total_mbps' =>
        LET rows == advanced_rows(settings.monitored_adapters, active_adapter',
                                  nic_speed_total_mbps')
        IN  /\ Len(rows) = Len(settings.monitored_adapters)
            /\ \A i \in 1..Len(settings.monitored_adapters) :
                   rows[i] = C16_Adapter(settings.monitored_adapters[i])]_vars

---------------------------------------------------------------------------
(* Properties of the settings, checked under Spec *)

\* C19: a step that changes the settings or a timer (the dialog is accepted)
\* leaves both timers running with the new intervals and leaves the
\* histories, the smoothing windows, the per-adapter baselines and rates, the
\* latest rates and latency and the probe counters as they were.
C19_AcceptKeepsHistory ==
    [][settings' # settings \/ timerVars' # timerVars =>
        /\ stats_timer' = TimerStarted(settings'.stats_refresh_ms)
        /\ ping_timer' = TimerStarted(settings'.ping_refresh_ms)
        /\ UNCHANGED <<histVars, simpleVars, nicVars, totalVars,
                       last_mbps_graph_total, active_adapter, pingVars,
                       poolVars>>]_vars

\* the dialog has been accepted (only it sets the probe interval to 500) in
\* a run with two ticks in the histories, a non-zero rate and a counted probe
C19_Witness ==
    /\ ping_timer = TimerStarted(500)
    /\ stats_timer = TimerStarted(250)
    /\ settings.simple_adapter = "eth0"
    /\ nticks = 2
    /\ Len(mbps_hist) = buf_len
    /\ mbps_hist[buf_len] # Zero
    /\ nic_last # EmptyMap
    /\ ping_ok = 1
    /\ last_ping_ms = PyInt(23)

\* C20: the thresholds of the settings the engine reads, after load_settings
\* and after every accepted dialog, are positive and ordered: good_ping_ms <=
\* ok_ping_ms and good_mbps >= ok_mbps.
C20_ThresholdsOrdered ==
    /\ settings.good_ping_ms.v > 0
    /\ settings.ok_ping_ms.v > 0
    /\ settings.good_mbps.n > 0
    /\ settings.ok_mbps.n > 0
    /\ settings.good_ping_ms.v <= settings.ok_ping_ms.v
    /\ settings.good_mbps.n * settings.ok_mbps.d >= settings.ok_mbps.n * settings.good_mbps.d

---------------------------------------------------------------------------
(* Properties of a failing enumeration, checked under SpecOutage *)

\* C18: a stats tick at which psutil.net_if_stats() raises or returns no
\* interface lets no exception leave the handler, sets the active adapter to
\* the sentinel, and produces zero rates for the simple view and the graph.
C18_OutageAbsorbed ==
    [][(ifstats' = PsutilError \/ (IsTick /\ ifstats' = <<>>)) =>
        /\ escaped' = escaped
        /\ active_adapter' = NO_NETWORK
        /\ last_mbps_simple_total' = Zero
        /\ last_mbps_simple_down' = Zero
        /\ last_mbps_simple_up' = Zero
        /\ last_mbps_graph_total' = Zero]_vars

---------------------------------------------------------------------------
(* Properties of the smoothing windows, checked under SpecOutage *)

\* the window after one more value: the last 10 of the old values followed
\* by the new one
C21_Shifted(window, value) == SubSeq(window \o <<value>>, 2, 11)

\* the sum of the first n values of a window
RECURSIVE C21_SumTo(_, _)
C21_SumTo(window, n) ==
    IF n = 0 THEN Zero ELSE FAdd(C21_SumTo(window, n - 1), window[n])

\* avg is the arithmetic mean of the 10 values of the window
C21_IsMean(avg, window) ==
    /\ Len(window) = 10
    /\ FMulInt(avg, 10) = C21_SumTo(window, 10)

\* C21: a stats tick appends to each smoothing window one value, the rate of
\* the adapter the simple selection stands for at that tick, the window
\* keeping the last 10 values appended (the initial zeros included, nothing
\* reset when the adapter changes), and the smoothed total, down and up
\* rates shown after the tick are the arithmetic means of the windows.
C21_SmoothedIsMeanOfLast10 ==
    [][IsTick =>
        /\ simple_hist_total' = C21_Shifted(simple_hist_total,
               Get(nic_speed_total_mbps', C16_Adapter(settings.simple_adapter), Zero))
        /\ simple_hist_down' = C21_Shifted(simple_hist_down,
               Get(nic_speed_down_mbps', C16_Adapter(settings.simple_adapter), Zero))
        /\ simple_hist_up' = C21_Shifted(simple_hist_up,
               Get(nic_speed_up_mbps', C16_Adapter(settings.simple_adapter), Zero))
        /\ C21_IsMean(simple_avg(simple_hist_total'), simple_hist_total')
        /\ C21_IsMean(simple_avg(simple_hist_down'), simple_hist_down')
        /\ C21_IsMean(simple_avg(simple_hist_up'), simple_hist_up')]_vars

\* three ticks have run: the second appended a non-zero rate of eth0, the
\* third the zero of another active adapter, and the non-zero value is
\* still in the window and in the mean
C21_Witness ==
    /\ nticks = 3
    /\ active_adapter # "eth0"
    /\ simple_hist_total[9] # Zero
    /\ simple_hist_total[10] = Zero
    /\ simple_hist_total[8] = Zero
    /\ simple_avg(simple_hist_total) = FDivInt(simple_hist_total[9], 10)
    /\ simple_avg(simple_hist_total) # Zero

---------------------------------------------------------------------------
(* Properties of the baselines, checked under SpecOutage *)

\* every adapter the tick reports has the tick's counters and time as its
\* baseline
C22_Stored ==
    \A nic \in DOMAIN pernic' :
        /\ nic \in DOMAIN nic_last'
        /\ nic_last'[nic].sent = pernic'[nic].bytes_sent
        /\ nic_last'[nic].recv = pernic'[nic].bytes_recv
        /\ nic_last'[nic].tm = tmono'

\* C22: after a stats tick the baseline of every adapter it reports is that
\* tick's sent and received counters and time, whether the adapter is new or
\* a counter went down; the next tick's deltas are taken against it.
C22_BaselineAlwaysStored == [][IsTick => (C22_Stored /\ C3_Step)]_vars

\* eth0 went from 1,000,000 sent and 5,000,000 received to 3,000,000 and
\* 300 in 1.0 s: the lower received counter is the baseline
C22_Witness ==
    /\ "eth0" \in DOMAIN nic_last
    /\ nic_last["eth0"] = [sent |-> 3000000, recv |-> 300, tm |-> tmono]
    /\ nic_speed_up_mbps["eth0"] = F(16, 1)
    /\ nic_speed_down_mbps["eth0"] = Zero

\* an adapter with an entry that the tick does not report keeps its
\* baseline and its rates
C25_Kept ==
    \A nic \in DOMAIN nic_last \ DOMAIN pernic' :
        /\ nic \in DOMAIN nic_last' /\ nic_last'[nic] = nic_last[nic]
        /\ nic \in DOMAIN nic_speed_up_mbps'
        /\ nic_speed_up_mbps'[nic] = nic_speed_up_mbps[nic]
        /\ nic_speed_down_mbps'[nic] = nic_speed_down_mbps[nic]
        /\ nic_speed_total_mbps'[nic] = nic_speed_total_mbps[nic]

\* an adapter with an entry that the tick reports gets the rates of its
\* counters' growth since the baseline, over the time since the baseline
\* was stored (at least 50 ms), however many ticks lie between
C25_OverTheGap ==
    \A nic \in DOMAIN nic_last \cap DOMAIN pernic' :
        LET gap  == IMax(50, tmono' - nic_last[nic].tm)
            sent == IMax(0, pernic'[nic].bytes_sent - nic_last[nic].sent)
            recv == IMax(0, pernic'[nic].bytes_recv - nic_last[nic].recv)
        IN  /\ nic_speed_up_mbps'[nic] = F(sent * 8, gap * 1000)
            /\ nic_speed_down_mbps'[nic] = F(recv * 8, gap * 1000)
            /\ nic_speed_total_mbps'[nic] = F((sent + recv) * 8, gap * 1000)

\* C25: the adapters with an entry never become fewer; an adapter a tick
\* does not report keeps its baseline and its last up, down and total rates
\* through that tick (not reset to zero, not evicted), and when it is
\* reported again its rates are computed against the old baseline over the
\* whole gap.
C25_StaleEntriesKept ==
    [][/\ DOMAIN nic_last \subseteq DOMAIN nic_last'
       /\ DOMAIN nic_speed_total_mbps \subseteq DOMAIN nic_speed_total_mbps'
       /\ DOMAIN nic_speed_up_mbps \subseteq DOMAIN nic_speed_up_mbps'
       /\ DOMAIN nic_speed_down_mbps \subseteq DOMAIN nic_speed_down_mbps'
       /\ IsTick => (C25_Kept /\ C25_OverTheGap)]_vars

\* eth0 had 1,000,000 bytes sent as its baseline, was not reported by the
\* next tick 1.0 s later, and was reported with 2,000,000 one more second
\* later: 8,000,000 bits over 2.0 s
C25_Witness ==
    /\ nticks = 3
    /\ "eth0" \in DOMAIN nic_last
    /\ nic_last["eth0"].sent = 2000000
    /\ nic_last["eth0"].tm = tmono
    /\ nic_speed_up_mbps["eth0"] = F(4, 1)

---------------------------------------------------------------------------
(* Properties of the samples, checked under SpecSampling *)

\* the buffer after one more sample: its elements moved down by one index,
\* the oldest evicted, the sample last
C23_Pushed(hist, sample) == SubSeq(hist, 2, 240) \o <<sample>>

\* C23: a stats tick appends one sample to the three buffers together: the
\* tick's wall-clock time, total rate of the graph's adapter and a latency
\* entry go to index 240, every older element moves down by one index in all
\* three and the oldest is evicted; no other step changes a buffer.  The
\* buffers are therefore the last 240 of the placeholders followed by the
\* samples in tick order, index-aligned.
C23_OneAlignedSamplePerTick ==
    [][/\ IsTick =>
            /\ t_hist' = C23_Pushed(t_hist, twall')
            /\ mbps_hist' = C23_Pushed(mbps_hist, last_mbps_graph_total')
            /\ ping_hist' = C23_Pushed(ping_hist, ping_hist'[240])
            /\ Len(ping_hist') = 240
       /\ ~IsTick => UNCHANGED histVars]_vars

\* two ticks 1.0 s apart: the older sample at index 239 (zero rate, no
\* latency yet), the newer at index 240 (non-zero rate, 23 ms), placeholders
\* below
C23_Witness ==
    /\ nticks = 2
    /\ t_hist[240] = twall
    /\ t_hist[239] = twall - 1000
    /\ t_hist[238] = 0
    /\ mbps_hist[240] # Zero
    /\ mbps_hist[239] = Zero
    /\ ping_hist[240] = F(23, 1)
    /\ ping_hist[239] = NaN
    /\ ping_hist[238] = NaN

\* the latency entry for a latest-known value: the value as a float, or
\* not-a-number when it is absent
C24_Entry(latest) == IF latest = None THEN NaN ELSE F(latest.v, 1)

\* C24: the latency entry a stats tick appends is the latest-known value,
\* which is the result of the completion delivered last: absent before any
\* delivery and after a failed one, whatever was delivered earlier.  A
\* delivery sets the latest-known value and appends nothing, however many
\* deliveries there are between two ticks.
C24_LatestKnownLatency ==
    /\ last_ping_ms = None
    /\ [][/\ IsTick => ping_hist'[240] = C24_Entry(last_ping_ms)
          /\ IsDelivery =>
                 /\ last_ping_ms' = Head(events).ms
                 /\ UNCHANGED histVars
          /\ ~IsDelivery => last_ping_ms' = last_ping_ms]_vars

\* a success and then a failure were delivered before the second tick, which
\* appended an absent latency
C24_Witness ==
    /\ nticks = 2
    /\ ping_ok = 1
    /\ ping_fail = 1
    /\ last_ping_ms = None
    /\ ping_hist[240] = NaN
    /\ ping_hist[239] = NaN
    /\ t_hist[239] = 1000

---------------------------------------------------------------------------
(* Properties of the threads, checked under SpecSampling.  A handler of the *)
(* control thread (tick_stats, request_ping, on_ping_done) is one step: it  *)
(* is a slot run by the event loop and returns before the next event is     *)
(* taken.  A worker's step is the end of PingTask.run.                      *)

\* the adapter maps, the totals, the histories, the smoothing windows and
\* latest rates, the latest latency and the probe counters
C26_EngineState ==
    <<active_adapter, nicVars, totalVars, histVars, simpleVars,
      last_mbps_graph_total, pingVars>>

\* the step is a worker finishing a probe
C26_IsCompletion == running' # running /\ running' \subseteq running

\* C26: a worker finishing a probe changes none of the engine state: it
\* leaves the set of running probes and queues one done signal carrying its
\* result; the engine state changes only in a stats tick, a probe tick or
\* the delivery of the oldest queued signal, each one whole step of the
\* control thread, so under every interleaving a state holds the buffers as
\* one handler left them.
C26_ControlThreadOnly ==
    [][/\ C26_IsCompletion =>
            /\ UNCHANGED C26_EngineState
            /\ \E id \in running :
                   /\ running' = running \ {id}
                   /\ Len(events') = Len(events) + 1
                   /\ SubSeq(events', 1, Len(events)) = events
                   /\ events'[Len(events')].id = id
       /\ C26_EngineState' # C26_EngineState =>
            /\ IsTick \/ IsPingTick \/ IsDelivery
            /\ running' = running \/ IsPingTick
       /\ IsTick => UNCHANGED <<pingVars, poolVars>>
       /\ IsDelivery => UNCHANGED <<nicVars, totalVars, histVars, simpleVars, running>>]_vars

\* after two ticks a worker has finished probe 1 with 23 ms while probe 2
\* is running: the signal is queued and the window shows no latency yet
C26_Witness ==
    /\ nticks = 2
    /\ ping_sent = 2
    /\ running = {2}
    /\ Len(events) = 1
    /\ events[1] = [id |-> 1, ms |-> PyInt(23)]
    /\ last_ping_ms = None
    /\ ping_ok = 0
    /\ ping_fail = 0
    /\ ping_hist[240] = NaN

---------------------------------------------------------------------------
(* Properties of the probe counters, checked under SpecLive *)

\* the probes dispatched whose completion has not been delivered: running
\* on the pool, or finished with the signal queued
C27_Undelivered == running \cup {events[i].id : i \in 1..Len(events)}

\* C27: in every state ok + fail <= sent and sent - (ok + fail) is the
\* number of probes dispatched whose completion has not been delivered;
\* sent starts at 0 and changes only by one, at a probe tick, which
\* dispatches the probe of that number.
C27_CounterBalance ==
    /\ ping_sent = 0
    /\ [](/\ ping_ok + ping_fail <= ping_sent
          /\ ping_sent - (ping_ok + ping_fail) = Cardinality(C27_Undelivered)
          /\ C27_Undelivered \subseteq 1..ping_sent
          /\ \A i \in 1..Len(events) : events[i].id \notin running)
    /\ [][ping_sent' # ping_sent \/ ~(C27_Undelivered' \subseteq C27_Undelivered) =>
             /\ ping_sent' = ping_sent + 1
             /\ C27_Undelivered' = C27_Undelivered \cup {ping_sent'}]_vars

\* two probe ticks have fired: one probe is counted as ok, the other has
\* finished and waits in the queue
C27_Witness ==
    /\ ping_sent = 2
    /\ ping_ok = 1
    /\ ping_fail = 0
    /\ running = {}
    /\ Len(events) = 1

---------------------------------------------------------------------------
(* Properties of the probes' completion, checked under SpecLive *)

\* probe id has been dispatched and its completion has been delivered
C28_Delivered(id) == id <= ping_sent /\ id \notin C27_Undelivered

\* C28: when the ping processes terminate and the pool and the event loop
\* are served, every probe dispatched is eventually delivered to
\* on_ping_done; a delivery counts one completion and a probe delivered is
\* never delivered again; so after the last probe tick sent = ok + fail
\* holds from some moment on.
C28_EveryProbeDeliveredOnce ==
    /\ \A id \in 1..MaxPings : (id \in running) ~> C28_Delivered(id)
    /\ [][/\ \A id \in 1..MaxPings : C28_Delivered(id) => C28_Delivered(id)'
          /\ IsDelivery => ping_ok' + ping_fail' = ping_ok + ping_fail + 1]_vars
    /\ <>[](ping_sent = ping_ok + ping_fail)

\* every probe tick has fired and both probes have been delivered as
\* successes
C28_Witness ==
    /\ ping_sent = MaxPings
    /\ ping_ok = MaxPings
    /\ ping_fail = 0
    /\ running = {}
    /\ events = <<>>

=============================================================================
